---- MODULE Spec2Model ----
(***************************************************************************)
(* A model of the MCP Go SDK server core (pkg/mcp/server, pkg/mcp/transport):*)
(* the session handshake and method router, the capability registry and    *)
(* the reflection-driven tool invocation.                                  *)
(***************************************************************************)
EXTENDS Integers, Sequences, FiniteSets, TLC

VARIABLES
    session,    \* the one server.Session the transport was built with
    tools,      \* Server.tools     : name    -> Tool
    resources,  \* Server.resources : pattern -> Resource
    prompts,    \* Server.prompts   : name    -> Prompt
    inflight,   \* per connection: the message being handled and the value of
                \* s.initialized it read under the read lock
    out,        \* what the handler call that just finished produced, until
                \* the transport has written it out
    regResult,  \* what the most recent registration call returned
    peerInit,   \* history: the connections whose own initialize succeeded
    transport,  \* the transport serving the session: its kind, its http
                \* server, its clients map and the connections behind it
    mu          \* Server.mu: the goroutines that hold it or wait for it

vars ==
    <<session, tools, resources, prompts, inflight, out, regResult, peerInit,
      transport, mu>>

(***************************************************************************)
(* Bounds of the model.                                                    *)
(***************************************************************************)
MaxLines == 2       \* lines of standard input enumerated
NumPeers == 2       \* connections served concurrently by one transport
MaxArgIndex == 1    \* wire argument keys arg0 .. argMaxArgIndex are enumerated
BufferSize == 1     \* Options.BufferSize: capacity of an SSE client's channel
MaxSends == 2       \* calls of SendNotification
MaxStops == 2       \* calls of Stop

Peers == 1 .. NumPeers

(***************************************************************************)
(* Go values: a dynamic type and a payload.  JSON decoded into interface{} *)
(* yields string, float64 or nil; handlers also produce int and error.     *)
(***************************************************************************)
GoVal(t, s, n) == [t |-> t, s |-> s, n |-> n]
GoString(s) == GoVal("string", s, 0)
GoFloat64(n) == GoVal("float64", "", n)
GoInt(n) == GoVal("int", "", n)
GoNil == GoVal("nil", "", 0)
GoError(msg) == GoVal("error", msg, 0)
\* The nil error as the only result of a call: a Value of type error.
NoError == GoVal("error", "", 0)

\* JSON values on the wire.
JStr(s) == [k |-> "string", s |-> s, n |-> 0]
JNum(n) == [k |-> "number", s |-> "", n |-> n]
JNull == [k |-> "null", s |-> "", n |-> 0]

WireStrings == {"3", "4", "abc"}
WireNumbers == {0, 4}
JSONValues == {JStr(s) : s \in WireStrings} \cup {JNum(n) : n \in WireNumbers}
                  \cup {JNull}

\* encoding/json into map[string]interface{}: a JSON string becomes a Go
\* string, a JSON number a float64, null a nil interface.
DecodeJSON(j) ==
    CASE j.k = "string" -> GoString(j.s)
      [] j.k = "number" -> GoFloat64(j.n)
      [] OTHER -> GoNil

\* reflect.Value.String: the string itself for a string Value, "<T Value>"
\* for a Value of any other type T.
ValueString(v) ==
    IF v.t = "string" THEN v.s ELSE "<" \o v.t \o " Value>"

(***************************************************************************)
(* Strings, as package strings, net/url and regexp work on them.  The      *)
(* strings of the model are lower-case letters, digits and . : / { } - ;   *)
(* none of them needs escaping in a URL.                                   *)
(***************************************************************************)
Least(S) == CHOOSE i \in S : \A j \in S : i <= j
Greatest(S) == CHOOSE i \in S : \A j \in S : i >= j

At(s, i) == SubSeq(s, i, i)
Drop(s, n) == IF n >= Len(s) THEN "" ELSE SubSeq(s, n + 1, Len(s))
HasPrefix(s, prefix) == Len(s) >= Len(prefix) /\ SubSeq(s, 1, Len(prefix)) = prefix

\* strings.IndexByte, counted from 1; 0 when c does not occur.
IndexByte(s, c) ==
    IF \E i \in 1 .. Len(s) : At(s, i) = c
    THEN Least({i \in 1 .. Len(s) : At(s, i) = c})
    ELSE 0

\* strings.Cut(s, "/"), the part before the separator.
FirstSegment(s) ==
    IF IndexByte(s, "/") = 0 THEN s ELSE SubSeq(s, 1, IndexByte(s, "/") - 1)

Letters ==
    {"a", "b", "c", "d", "e", "f", "g", "h", "i", "j", "k", "l", "m",
     "n", "o", "p", "q", "r", "s", "t", "u", "v", "w", "x", "y", "z"}
SchemeMarks == {"0", "1", "2", "3", "4", "5", "6", "7", "8", "9", "+", "-", "."}

\* The position of the first character of rawURL that cannot be part of a
\* scheme, 0 when there is none.
SchemeStop(rawURL) ==
    IF \A i \in 1 .. Len(rawURL) :
          \/ At(rawURL, i) \in Letters
          \/ i > 1 /\ At(rawURL, i) \in SchemeMarks
    THEN 0
    ELSE Least({i \in 1 .. Len(rawURL) :
                   ~(\/ At(rawURL, i) \in Letters
                     \/ i > 1 /\ At(rawURL, i) \in SchemeMarks)})

SchemeUpTo(rawURL, stop) ==
    IF stop = 0 \/ At(rawURL, stop) # ":"
    THEN [ok |-> TRUE, scheme |-> "", rest |-> rawURL]
    ELSE IF stop = 1
    THEN [ok |-> FALSE, scheme |-> "", rest |-> ""]   \* missing protocol scheme
    ELSE [ok |-> TRUE, scheme |-> SubSeq(rawURL, 1, stop - 1),
          rest |-> Drop(rawURL, stop)]

\* url.getScheme: the scheme is the run of letters (after the first
\* character also digits, + - .) that a colon ends.
getScheme(rawURL) == SchemeUpTo(rawURL, SchemeStop(rawURL))

URL(scheme, host, path) == [ok |-> TRUE, Scheme |-> scheme, Host |-> host, Path |-> path]
NoURL == [ok |-> FALSE, Scheme |-> "", Host |-> "", Path |-> ""]

\* The authority, up to the first slash (at position i, 0 for none), and
\* the path from that slash on.
SplitAuthority(scheme, authority, i) ==
    IF i = 0
    THEN URL(scheme, authority, "")
    ELSE URL(scheme, SubSeq(authority, 1, i - 1), Drop(authority, i - 1))

\* url.parse after getScheme.
ParseRest(scheme, rest) ==
    IF ~HasPrefix(rest, "/") /\ scheme # ""
    THEN URL(scheme, "", "")                           \* an opaque URL
    ELSE IF ~HasPrefix(rest, "/") /\ IndexByte(FirstSegment(rest), ":") # 0
    THEN NoURL                     \* first path segment cannot contain colon
    ELSE IF (scheme # "" \/ ~HasPrefix(rest, "///")) /\ HasPrefix(rest, "//")
    THEN SplitAuthority(scheme, Drop(rest, 2), IndexByte(Drop(rest, 2), "/"))
    ELSE URL(scheme, "", rest)

ParseScheme(sch) == IF ~sch.ok THEN NoURL ELSE ParseRest(sch.scheme, sch.rest)

\* url.Parse for a URL without user info, port, query and fragment.
UrlParse(rawURL) == ParseScheme(getScheme(rawURL))

\* The text before the path, and the "./" that keeps a colon in the first
\* segment of a bare path from reading as a scheme.
JoinURL(prefix, path) ==
    IF prefix = "" /\ IndexByte(FirstSegment(path), ":") # 0
    THEN "./" \o path
    ELSE prefix \o path

\* (*url.URL).String for the same URLs.
UrlString(u) ==
    JoinURL((IF u.Scheme # "" THEN u.Scheme \o ":" ELSE "")
              \o (IF (u.Scheme # "" \/ u.Host # "") /\ (u.Host # "" \/ u.Path # "")
                  THEN "//" \o u.Host ELSE "")
              \o (IF u.Path # "" /\ At(u.Path, 1) # "/" /\ u.Host # ""
                  THEN "/" ELSE ""),
            u.Path)

\* The regular expression parseResourcePattern builds, as its elements: every
\* {name} of the pattern is replaced by the group ([^/]+), a "." of the
\* pattern matches any character, every other character matches itself.
RECURSIVE CompileFrom(_, _)
CompileFrom(pattern, close) ==
    IF pattern = "" THEN <<>>
    ELSE IF At(pattern, 1) = "{" /\ close >= 2
    THEN <<[kind |-> "group", c |-> SubSeq(pattern, 2, close)]>>
            \o CompileFrom(Drop(pattern, close + 1),
                           IndexByte(Drop(pattern, close + 2), "}"))
    ELSE <<[kind |-> IF At(pattern, 1) = "." THEN "any" ELSE "lit",
            c |-> At(pattern, 1)]>>
            \o CompileFrom(Tail(pattern), IndexByte(Drop(pattern, 2), "}"))

\* close: the position of the first "}" after the character the pattern
\* starts with.
CompilePattern(pattern) == CompileFrom(pattern, IndexByte(Drop(pattern, 1), "}"))

\* regexp.FindStringSubmatch of "^" + regex + "$": whether s matches as a
\* whole, and the text of each group; a group is greedy.
RECURSIVE FindStringSubmatch(_, _)
GroupLengths(regex, s) ==
    {k \in 1 .. Len(s) :
        /\ \A i \in 1 .. k : At(s, i) # "/"
        /\ FindStringSubmatch(Tail(regex), Drop(s, k)).ok}
GroupTakes(regex, s, k) ==
    [ok |-> TRUE,
     caps |-> <<SubSeq(s, 1, k)>> \o FindStringSubmatch(Tail(regex), Drop(s, k)).caps]
FindStringSubmatch(regex, s) ==
    IF regex = <<>> THEN [ok |-> s = "", caps |-> <<>>]
    ELSE IF Head(regex).kind = "group"
    THEN IF GroupLengths(regex, s) = {}
         THEN [ok |-> FALSE, caps |-> <<>>]
         ELSE GroupTakes(regex, s, Greatest(GroupLengths(regex, s)))
    ELSE IF s # "" /\ (Head(regex).kind = "any" \/ Head(regex).c = At(s, 1))
    THEN FindStringSubmatch(Tail(regex), Tail(s))
    ELSE [ok |-> FALSE, caps |-> <<>>]

(***************************************************************************)
(* Handlers.  A registered handler is an opaque Go func; the model names   *)
(* the funcs the repository registers and keeps, for each, its parameter   *)
(* types, its result types and its body.                                   *)
(***************************************************************************)
HandlerIds == {"add", "reverseText", "divide", "readFile", "getData", "confirm"}

\* reflect.Type.NumIn / In(i)
HandlerIn(h) ==
    CASE h = "add" -> <<"int", "int">>               \* func(a, b int) int
      [] h = "reverseText" -> <<"string">>           \* func(text string) (string, error)
      [] h = "divide" -> <<"float64", "float64">>    \* func(a, b float64) (float64, error)
      [] h = "readFile" -> <<"string">>              \* func(path string) ([]byte, error)
      [] h = "getData" -> <<"string">>               \* func(id string) string
      [] h = "confirm" -> <<"string">>               \* func(action string) string
      [] h = "badSecond" -> <<"int">>                \* func(x int) (int, string)
      [] h = "writeFile" -> <<"string", "string">>   \* func(path, content string) error
      [] h = "deleteFile" -> <<"string">>            \* func(path string) error
      [] h = "createDir" -> <<"string">>             \* func(path string) error
      [] OTHER -> <<>>                               \* "noReturn": func()

\* reflect.Type.NumOut / Out(i)
HandlerOut(h) ==
    CASE h = "add" -> <<"int">>
      [] h = "reverseText" -> <<"string", "error">>
      [] h = "divide" -> <<"float64", "error">>
      [] h = "readFile" -> <<"[]byte", "error">>
      [] h = "getData" -> <<"string">>
      [] h = "confirm" -> <<"string">>
      [] h = "badSecond" -> <<"int", "string">>
      [] h \in {"writeFile", "deleteFile", "createDir"} -> <<"error">>
      [] OTHER -> <<>>

\* The values a registration may be handed that are not usable handlers:
\* a nil interface, a string, a func() and a func(x int) (int, string).
InvalidHandlers == {"nil", "notAFunction", "noReturn", "badSecond"}

\* reflect.Type.Kind of the handler value.
HandlerKind(h) ==
    CASE h = "nil" -> "nil"
      [] h = "notAFunction" -> "string"
      [] OTHER -> "func"

\* []rune reversal, tabulated over the strings the model sends.
ReverseString(s) == IF s = "abc" THEN "cba" ELSE s

\* The files ioutil.ReadFile finds, by name, with their content.
Files == [name \in {"a"} |-> "content of " \o name]

\* ioutil.ReadFile
ReadFile(name) ==
    IF name \in DOMAIN Files
    THEN <<GoVal("[]byte", Files[name], 0), GoNil>>
    ELSE <<GoVal("[]byte", "", 0),
           GoError("open " \o name \o ": no such file or directory")>>

\* The handler bodies: the values a call with type-correct arguments returns.
HandlerCall(h, args) ==
    CASE h = "add" -> <<GoInt(args[1].n + args[2].n)>>
      [] h = "reverseText" -> <<GoString(ReverseString(args[1].s)), GoNil>>
      [] h = "divide" ->
            IF args[2].n = 0
            THEN <<GoFloat64(0), GoError("division by zero")>>
            ELSE <<GoFloat64(args[1].n \div args[2].n), GoNil>>
      [] h = "readFile" -> ReadFile(args[1].s)
      [] h = "getData" -> <<GoString(args[1].s)>>
      [] h = "confirm" ->
            <<GoString("Are you sure you want to " \o args[1].s \o "?")>>
      [] h = "writeFile" ->      \* ioutil.WriteFile; the empty path is rootDir
            IF args[1].s = ""
            THEN <<GoError("open .: is a directory")>>
            ELSE <<NoError>>
      [] h = "deleteFile" ->     \* os.Remove
            IF args[1].s \in DOMAIN Files
            THEN <<NoError>>
            ELSE <<GoError("remove " \o args[1].s \o ": no such file or directory")>>
      [] h = "createDir" ->      \* os.MkdirAll
            IF args[1].s \in DOMAIN Files
            THEN <<GoError("mkdir " \o args[1].s \o ": not a directory")>>
            ELSE <<NoError>>
      [] OTHER -> <<>>

(***************************************************************************)
(* The registry of server.Server.                                          *)
(***************************************************************************)
Tool(handler, description, isAsync) ==
    [Handler |-> handler, Description |-> description, IsAsync |-> isAsync]
Resource(handler, description, pattern) ==
    [Handler |-> handler, Description |-> description, Pattern |-> pattern]
Prompt(handler, description) ==
    [Handler |-> handler, Description |-> description]

\* m[k] = v added to map m (k not yet a key), or overwritten (k a key).
MapSet(m, k, v) == [x \in DOMAIN m \cup {k} |-> IF x = k THEN v ELSE m[x]]
EmptyMap == [x \in {} |-> 0]

RegOk == [err |-> ""]
RegErr(e) == [err |-> e]

\* An AddTool that writes the entry into a map of its own.
AddToolLosesEntries(ts, name, handler, description) ==
    IF name \in DOMAIN ts
    THEN [map |-> ts, res |-> RegErr("tool " \o name \o " already exists")]
    ELSE [map |-> MapSet(EmptyMap, name, Tool(handler, description, FALSE)),
          res |-> RegOk]

\* Each registration returns the map after the call and the error returned.
AddTool(ts, name, handler, description) ==
    IF name \in DOMAIN ts
    THEN [map |-> ts, res |-> RegErr("tool " \o name \o " already exists")]
    ELSE [map |-> MapSet(ts, name, Tool(handler, description, FALSE)), res |-> RegOk]

\* AddAsyncTool without the existence check.
AddAsyncToolOverwrites(ts, name, handler, description) ==
    [map |-> MapSet(ts, name, Tool(handler, description, TRUE)), res |-> RegOk]

AddAsyncTool(ts, name, handler, description) ==
    IF name \in DOMAIN ts
    THEN [map |-> ts, res |-> RegErr("tool " \o name \o " already exists")]
    ELSE [map |-> MapSet(ts, name, Tool(handler, description, TRUE)), res |-> RegOk]

AddResource(rs, pattern, handler, description) ==
    IF pattern \in DOMAIN rs
    THEN [map |-> rs, res |-> RegErr("resource " \o pattern \o " already exists")]
    ELSE [map |-> MapSet(rs, pattern, Resource(handler, description, pattern)),
          res |-> RegOk]

AddPrompt(ps, name, handler, description) ==
    IF name \in DOMAIN ps
    THEN [map |-> ps, res |-> RegErr("prompt " \o name \o " already exists")]
    ELSE [map |-> MapSet(ps, name, Prompt(handler, description)), res |-> RegOk]

(***************************************************************************)
(* The registry of mcp.Server (pkg/mcp): every registration validates the  *)
(* handler and then writes the entry, whether or not the key exists.       *)
(***************************************************************************)
\* A validateHandler without the check of the second return value.
validateHandlerIgnoresSecond(handler) ==
    IF handler = "nil" THEN "handler cannot be nil"
    ELSE IF HandlerKind(handler) # "func" THEN "handler must be a function"
    ELSE IF Len(HandlerOut(handler)) < 1
    THEN "handler must return at least one value"
    ELSE ""

validateHandler(handler) ==
    IF handler = "nil" THEN "handler cannot be nil"
    ELSE IF HandlerKind(handler) # "func" THEN "handler must be a function"
    ELSE IF Len(HandlerOut(handler)) < 1
    THEN "handler must return at least one value"
    ELSE IF Len(HandlerOut(handler)) = 2 /\ HandlerOut(handler)[2] # "error"
    THEN "second return value must be error"
    ELSE ""

\* The entry a registration writes, and the prefix of its error.
McpEntry(op, key, handler, description) ==
    CASE op = "AddTool" -> Tool(handler, description, FALSE)
      [] op = "AddAsyncTool" -> Tool(handler, description, TRUE)
      [] op = "AddResource" -> Resource(handler, description, key)
      [] OTHER -> Prompt(handler, description)
McpInvalid(op) ==
    CASE op = "AddTool" -> "invalid tool handler: "
      [] op = "AddAsyncTool" -> "invalid async tool handler: "
      [] op = "AddResource" -> "invalid resource handler: "
      [] OTHER -> "invalid prompt handler: "

\* mcp.Server.AddTool / AddAsyncTool / AddResource / AddPrompt on the map m
\* of their kind.
McpAdd(op, m, key, handler, description, invalid) ==
    IF invalid # ""
    THEN [map |-> m, res |-> RegErr(McpInvalid(op) \o invalid)]
    ELSE [map |-> MapSet(m, key, McpEntry(op, key, handler, description)),
          res |-> RegOk]

(***************************************************************************)
(* Messages.  A decoded envelope: a request (id present) or a notification,*)
(* its method and its params.  The params are kept per method: those of    *)
(* initialize and those of tools/call.                                     *)
(***************************************************************************)
\* initialize params: ok = they decode as InitializeRequestParams.
InitParams(c) == [ok |-> TRUE, client |-> c]
BadInitParams == [ok |-> FALSE, client |-> ""]

\* tools/call params: ok = they decode as CallToolRequestParams; nilArgs = the
\* "arguments" member is absent or null, so that params.Arguments is a nil map.
CallParams(name, arguments) ==
    [ok |-> TRUE, name |-> name, nilArgs |-> FALSE, arguments |-> arguments]
CallParamsNilArgs(name) ==
    [ok |-> TRUE, name |-> name, nilArgs |-> TRUE, arguments |-> EmptyMap]
BadCallParams ==
    [ok |-> FALSE, name |-> "", nilArgs |-> TRUE, arguments |-> EmptyMap]

\* A request id on the wire: a JSON string, or a JSON integer, written
\* hi * 2^30 + lo so that integers beyond 32 bits can be told apart.
IdBase == 2 ^ 30
NumId(hi, lo) == [k |-> "number", s |-> "", hi |-> hi, lo |-> lo]
StrId(s) == [k |-> "string", s |-> s, hi |-> 0, lo |-> 0]
NoId == [k |-> "none", s |-> "", hi |-> 0, lo |-> 0]

\* A URI member on the wire: a JSON string, a JSON object with the members
\* of url.URL, or absent.
UriString(s) == [k |-> "string", s |-> s, Scheme |-> "", Host |-> "", Path |-> ""]
UriObject(scheme, host, path) ==
    [k |-> "object", s |-> "", Scheme |-> scheme, Host |-> host, Path |-> path]
UriAbsent == [k |-> "absent", s |-> "", Scheme |-> "", Host |-> "", Path |-> ""]

\* resources/read params, prompts/get params and notifications/cancelled
\* params: ok = the params member is present and is JSON.
ReadParams(uri) == [ok |-> TRUE, uri |-> uri]
BadReadParams == [ok |-> FALSE, uri |-> UriAbsent]
GetParams(name, arguments) == [ok |-> TRUE, name |-> name, arguments |-> arguments]
BadGetParams == [ok |-> FALSE, name |-> "", arguments |-> EmptyMap]
CancelParams(requestId) == [ok |-> TRUE, requestId |-> requestId]
BadCancelParams == [ok |-> FALSE, requestId |-> NoId]

NoMsg ==
    [kind |-> "", id |-> NoId, method |-> "", init |-> BadInitParams,
     call |-> BadCallParams, read |-> BadReadParams, get |-> BadGetParams,
     cancel |-> BadCancelParams]
Request(method) ==
    [NoMsg EXCEPT !.kind = "request", !.id = NumId(0, 1), !.method = method]
Notification(method) == [NoMsg EXCEPT !.kind = "notification", !.method = method]
InitializeRequest(init) == [Request("initialize") EXCEPT !.init = init]
CallToolRequest(call) == [Request("tools/call") EXCEPT !.call = call]
ReadResourceRequest(read) == [Request("resources/read") EXCEPT !.read = read]
GetPromptRequest(get) == [Request("prompts/get") EXCEPT !.get = get]
CancelledNotification(cancel) ==
    [Notification("notifications/cancelled") EXCEPT !.cancel = cancel]
\* An inbound unit that does not decode as an envelope.
BadEnvelope == [NoMsg EXCEPT !.kind = "undecodable"]
WithId(msg, id) == [msg EXCEPT !.id = id]

\* The peer's capabilities and implementation info carried by initialize params.
Clients == {"A", "B"}
ClientCapabilities(c) == "capabilities of " \o c
ClientInfo(c) == "info of " \o c

LatestProtocolVersion == "2024-11-05"
\* The protocolVersion member of the initialize params each client sends.
ProtocolVersionOf(c) == IF c = "A" THEN LatestProtocolVersion ELSE "2024-10-07"

(***************************************************************************)
(* Results and outcomes.                                                   *)
(***************************************************************************)
NoResult ==
    [type |-> "", protocolVersion |-> "", capabilities |-> "", serverInfo |-> "",
     list |-> {}, content |-> <<>>, isError |-> FALSE, description |-> ""]

TextContent(text) == [type |-> "text", text |-> text]   \* protocol.NewTextContent
BareString(text) == [type |-> "", text |-> text]        \* a Go string as content

\* A handler call: the handler, the arguments passed and the values returned;
\* for a resource, the pattern of the resource that was resolved.
NoCall ==
    [invoked |-> FALSE, handler |-> "", args |-> <<>>, results |-> <<>>,
     pattern |-> ""]

\* What a handler call produced: a JSONRPCResponse ("response"), a non-nil
\* error ("error"), a nil error from a notification ("accepted"), or a panic
\* that unwinds out of the session into the transport's goroutine ("panic").
Outcome(kind, err, result, call) ==
    [kind |-> kind, id |-> NoId, err |-> err, result |-> result, call |-> call]
Response(result, call) == Outcome("response", "", result, call)
Error(err) == Outcome("error", err, NoResult, NoCall)
Accepted == Outcome("accepted", "", NoResult, NoCall)
\* json.Unmarshal of the inbound unit into the envelope struct failed.
ParseError == Outcome("parse error", "invalid character", NoResult, NoCall)
Panic(call) == Outcome("panic", "", NoResult, call)

NoOut ==
    [peer |-> 0, msg |-> NoMsg, initialized |-> FALSE,
     o |-> Outcome("none", "", NoResult, NoCall)]

(***************************************************************************)
(* The session.                                                            *)
(***************************************************************************)
\* encoding/json into the interface{} behind RequestID: a JSON string becomes
\* a Go string, a JSON number the nearest float64.  Integers below 2^53 are
\* float64 values; from 2^53 to 2^54 only the even ones are, and an odd one
\* goes to the neighbour whose half is even.
DecodeID(id) ==
    IF id.k # "number" THEN id
    ELSE IF id.hi < 2 ^ 23 \/ id.lo % 2 = 0
    THEN [id EXCEPT !.k = "float64"]
    ELSE IF ((id.lo - 1) \div 2) % 2 = 0
    THEN [id EXCEPT !.k = "float64", !.lo = id.lo - 1]
    ELSE IF id.lo + 1 = IdBase
    THEN [id EXCEPT !.k = "float64", !.hi = id.hi + 1, !.lo = 0]
    ELSE [id EXCEPT !.k = "float64", !.lo = id.lo + 1]

\* encoding/json of the RequestID: a float64 is written as the integer it
\* is, a string as a JSON string.
EncodeID(id) == IF id.k = "float64" THEN [id EXCEPT !.k = "number"] ELSE id

NewSession ==
    [initialized |-> FALSE, capabilities |-> "", clientInfo |-> "",
     cancelled |-> FALSE]

ServerCapabilities == "server capabilities"
ServerInfo == "server info"

\* A handleInitialize that marks the session before it decodes the params.
handleInitializeMarksFirst(s, msg) ==
    IF ~msg.init.ok
    THEN [session |-> [s EXCEPT !.initialized = TRUE],
          o |-> Error("invalid initialize params")]
    ELSE [session |-> [s EXCEPT !.capabilities = ClientCapabilities(msg.init.client),
                                !.clientInfo = ClientInfo(msg.init.client),
                                !.initialized = TRUE],
          o |-> Response([NoResult EXCEPT !.type = "InitializeResult",
                                          !.protocolVersion = LatestProtocolVersion,
                                          !.capabilities = ServerCapabilities,
                                          !.serverInfo = ServerInfo],
                         NoCall)]

handleInitialize(s, msg) ==
    IF ~msg.init.ok
    THEN [session |-> s, o |-> Error("invalid initialize params")]
    ELSE [session |-> [s EXCEPT !.capabilities = ClientCapabilities(msg.init.client),
                                !.clientInfo = ClientInfo(msg.init.client),
                                !.initialized = TRUE],
          o |-> Response([NoResult EXCEPT !.type = "InitializeResult",
                                          !.protocolVersion = LatestProtocolVersion,
                                          !.capabilities = ServerCapabilities,
                                          !.serverInfo = ServerInfo],
                         NoCall)]

\* ID: req.ID, as every handler fills it into the JSONRPCResponse it returns.
WithRequestID(req, r) ==
    IF r.o.kind = "response"
    THEN [r EXCEPT !.o.id = DecodeID(req.id)]
    ELSE r

handlePing == Response([NoResult EXCEPT !.type = "empty"], NoCall)

\* A Close that also zeroes the session's fields.
CloseResets(s) == [NewSession EXCEPT !.cancelled = TRUE]

\* Session.Close: cancels the session's context and nothing else.
Close(s) == [s EXCEPT !.cancelled = TRUE]

(***************************************************************************)
(* tools/list and tools/call.                                              *)
(***************************************************************************)
\* A tools/list that leaves the asynchronous tools out.
handleListToolsSyncOnly(ts) ==
    Response([NoResult EXCEPT
                 !.type = "ListToolsResult",
                 !.list = {[Name |-> n, Description |-> ts[n].Description] :
                              n \in {m \in DOMAIN ts : ~ts[m].IsAsync}}],
             NoCall)

\* handleListTools: name and description of every entry of the map.
handleListTools(ts) ==
    Response([NoResult EXCEPT
                 !.type = "ListToolsResult",
                 !.list = {[Name |-> n, Description |-> ts[n].Description] :
                              n \in DOMAIN ts}],
             NoCall)

\* fmt.Sprintf("arg%d", i)
ArgName(i) == "arg" \o ToString(i)

\* The loop with an absent key filled in by a nil value instead of refused.
BindArgumentsZeroFill(h, params, i, acc) ==
    [err |-> "",
     args |-> [k \in 1 .. Len(HandlerIn(h)) |->
                  IF ~params.nilArgs /\ ArgName(k - 1) \in DOMAIN params.arguments
                  THEN DecodeJSON(params.arguments[ArgName(k - 1)])
                  ELSE GoNil]]

\* The argument loop of handleCallTool from index i on, acc the reflect.Values
\* bound so far: the nil map is refused first, then an absent key; a present
\* value is assigned as it was decoded, without conversion to the parameter
\* type.
RECURSIVE BindArguments(_, _, _, _)
BindArguments(h, params, i, acc) ==
    IF i >= Len(HandlerIn(h))
    THEN [err |-> "", args |-> acc]
    ELSE IF params.nilArgs
    THEN [err |-> "arguments map is nil", args |-> acc]
    ELSE IF ArgName(i) \notin DOMAIN params.arguments
    THEN [err |-> "missing argument: " \o ArgName(i), args |-> acc]
    ELSE BindArguments(h, params, i + 1,
                       Append(acc, DecodeJSON(params.arguments[ArgName(i)])))

\* reflect.Value.Call panics unless every argument is assignable to the
\* parameter it is passed for; a nil interface gives the zero Value, which
\* Call refuses too.
CallPanics(h, args) ==
    \E i \in 1 .. Len(HandlerIn(h)) : args[i].t # HandlerIn(h)[i]

\* "Process results" of handleCallTool, without the isError assignment.
ProcessResultsNeverError(results) ==
    IF Len(results) = 2
    THEN IF results[2] # GoNil
         THEN [content |-> <<TextContent(results[2].s)>>, isError |-> FALSE]
         ELSE [content |-> <<BareString(ValueString(results[1]))>>, isError |-> FALSE]
    ELSE [content |-> <<BareString(ValueString(results[1]))>>, isError |-> FALSE]

\* "Process results" of handleCallTool.
ProcessResults(results) ==
    IF Len(results) = 2
    THEN IF results[2] # GoNil
         THEN [content |-> <<TextContent(results[2].s)>>, isError |-> TRUE]
         ELSE [content |-> <<BareString(ValueString(results[1]))>>, isError |-> FALSE]
    ELSE [content |-> <<BareString(ValueString(results[1]))>>, isError |-> FALSE]

CallToolResult(processed, call) ==
    Response([NoResult EXCEPT !.type = "CallToolResult",
                              !.content = processed.content,
                              !.isError = processed.isError],
             call)

\* The call itself and what follows it, given the bound arguments.
InvokeTool(h, args) ==
    IF CallPanics(h, args)
    THEN Panic([NoCall EXCEPT !.handler = h, !.args = args])
    ELSE CallToolResult(ProcessResults(HandlerCall(h, args)),
                        [NoCall EXCEPT !.invoked = TRUE, !.handler = h,
                                       !.args = args,
                                       !.results = HandlerCall(h, args)])

handleCallTool(ts, msg) ==
    IF ~msg.call.ok
    THEN Error("invalid tool call params")
    ELSE IF msg.call.name \notin DOMAIN ts
    THEN Error("tool not found: " \o msg.call.name)
    ELSE LET h == ts[msg.call.name].Handler
             bound == BindArguments(h, msg.call, 0, <<>>)
         IN  IF bound.err # ""
             THEN Error(bound.err)
             ELSE InvokeTool(h, bound.args)

(***************************************************************************)
(* resources/read and prompts/get.                                         *)
(***************************************************************************)
DigitChars == <<"0", "1", "2", "3", "4", "5", "6", "7", "8", "9">>
IsDigit(c) == \E d \in 1 .. Len(DigitChars) : DigitChars[d] = c
DigitOf(c) == (CHOOSE d \in 1 .. Len(DigitChars) : DigitChars[d] = c) - 1

\* The number the leading digits of s spell, after the digits acc.
RECURSIVE ScanDigits(_, _)
ScanDigits(s, acc) ==
    IF s = "" \/ ~IsDigit(At(s, 1)) THEN acc
    ELSE ScanDigits(Tail(s), acc * 10 + DigitOf(At(s, 1)))

\* reflect.Zero
Zero(t) ==
    CASE t = "string" -> GoString("")
      [] t = "int" -> GoInt(0)
      [] t = "float64" -> GoFloat64(0)
      [] OTHER -> GoVal(t, "", 0)

\* convertValue: the string is kept for a string parameter and scanned with
\* fmt.Sscanf for a numeric one (unsigned digits here), which takes the
\* leading digits and fails when there is none.
convertValue(value, t) ==
    CASE t = "string" -> [err |-> "", v |-> GoString(value)]
      [] t \in {"int", "float64"} ->
            IF value = "" \/ ~IsDigit(At(value, 1))
            THEN [err |-> "expected integer", v |-> Zero(t)]
            ELSE [err |-> "", v |-> GoVal(t, "", ScanDigits(value, 0))]
      [] OTHER -> [err |-> "unsupported type: " \o t, v |-> Zero(t)]

\* The elements of regex that are groups, in order.
Groups(regex, at) ==
    [n \in 1 .. Cardinality(at) |->
        regex[CHOOSE i \in at : Cardinality({j \in at : j <= i}) = n]]

ResourcePattern(groups, regex, handler) ==
    IF Len(groups) > Len(HandlerIn(handler))
    THEN [ok |-> FALSE, regex |-> <<>>, paramNames |-> <<>>, paramTypes |-> <<>>]
    ELSE [ok |-> TRUE, regex |-> regex,
          paramNames |-> [i \in 1 .. Len(groups) |-> groups[i].c],
          paramTypes |-> [i \in 1 .. Len(groups) |-> HandlerIn(handler)[i]]]

ParseCompiled(regex, handler) ==
    ResourcePattern(Groups(regex, {i \in 1 .. Len(regex) : regex[i].kind = "group"}),
                    regex, handler)

\* parseResourcePattern: the regular expression, and for the i-th {name} its
\* name and the type of the handler's i-th parameter; refused when the
\* handler has fewer parameters than the pattern has placeholders.
parseResourcePattern(pattern, handler) ==
    ParseCompiled(CompilePattern(pattern), handler)

NoMatch(err) == [err |-> err, resource |-> Resource("", "", ""), params |-> EmptyMap]

\* params[name] for every placeholder, from the converted values conv, or
\* the error of the first value that does not convert.
ParamsOf(names, conv, bad, resource) ==
    IF bad # {}
    THEN NoMatch("invalid parameter " \o names[Least(bad)]
                    \o ": " \o conv[Least(bad)].err)
    ELSE [err |-> "", resource |-> resource,
          params |-> [name \in {names[i] : i \in DOMAIN names} |->
                         conv[Greatest({i \in DOMAIN names : names[i] = name})].v]]

Converted(rp, matches) ==
    [i \in DOMAIN rp.paramNames |-> convertValue(matches[i], rp.paramTypes[i])]

Unconverted(conv) == {i \in DOMAIN conv : conv[i].err # ""}

\* "Extract parameters" of matchResource.
ExtractParams(rp, matches, resource) ==
    ParamsOf(rp.paramNames, Converted(rp, matches),
             Unconverted(Converted(rp, matches)), resource)

\* A pattern that parsed, tried on the path: m is what its regular expression
\* found.
TryMatch(rp, m, resource) ==
    IF m.ok THEN ExtractParams(rp, m.caps, resource) ELSE NoMatch("continue")

\* One pattern tried on the path; the error "continue" stands for the
\* continue statements of the loop.
TryPattern(rp, path, resource) ==
    IF ~rp.ok THEN NoMatch("continue")
    ELSE TryMatch(rp, FindStringSubmatch(rp.regex, path), resource)

Continues(tried) == tried.err = "continue"

\* The loop of matchResource over s.resources from position i of order, the
\* order in which this range statement happens to visit the map's keys.
RECURSIVE MatchFrom(_, _, _, _, _)
MatchNext(rs, order, i, path, uri, tried) ==
    IF Continues(tried) THEN MatchFrom(rs, order, i + 1, path, uri) ELSE tried
MatchFrom(rs, order, i, path, uri) ==
    IF i > Len(order)
    THEN NoMatch("no matching resource found for " \o uri)
    ELSE MatchNext(rs, order, i, path, uri,
                   TryPattern(parseResourcePattern(order[i], rs[order[i]].Handler),
                              path, rs[order[i]]))

MatchParsed(rs, order, parsed, uri) ==
    IF ~parsed.ok
    THEN NoMatch("invalid URI")
    ELSE MatchFrom(rs, order, 1, parsed.Path, uri)

\* A matchResource that falls back, when no pattern matches, on the first
\* resource its loop visited.
matchResourceFallsBack(rs, order, uri) ==
    LET m == MatchParsed(rs, order, UrlParse(uri), uri)
    IN  IF m.err # "" /\ m.err # "invalid URI" /\ order # <<>>
        THEN [err |-> "", resource |-> rs[order[1]], params |-> EmptyMap]
        ELSE m

\* Server.matchResource: the pattern is matched against the path of the
\* parsed URI.
matchResource(rs, order, uri) == MatchParsed(rs, order, UrlParse(uri), uri)

\* fmt.Sprintf("param%d", i)
ParamName(i) == "param" \o ToString(i)

\* "Convert parameters to reflect.Values" of readResource.
ResourceArgs(h, params) ==
    [i \in 1 .. Len(HandlerIn(h)) |->
        IF ParamName(i - 1) \in DOMAIN params
        THEN params[ParamName(i - 1)]
        ELSE Zero(HandlerIn(h)[i])]

ResourceCall(resource, args, results) ==
    [invoked |-> TRUE, handler |-> resource.Handler, args |-> args,
     results |-> results, pattern |-> resource.Pattern]

ReadResourceResult(call) ==
    Response([NoResult EXCEPT !.type = "ReadResourceResult",
                              !.content = <<call.results[1]>>],
             call)

\* "Process results" that hands out the value of a failed call as content.
ProcessContentsIgnoresError(call) == ReadResourceResult(call)

\* "Process results" of readResource and what handleReadResource makes of
\* it: the error of a (value, error) pair, or the value as the only content.
ProcessContents(call) ==
    IF Len(call.results) = 2 /\ call.results[2] # GoNil
    THEN Outcome("error", "failed to read resource: " \o call.results[2].s,
                 NoResult, call)
    ELSE ReadResourceResult(call)

CallResource(resource, args) ==
    IF CallPanics(resource.Handler, args)
    THEN Panic([ResourceCall(resource, args, <<>>) EXCEPT !.invoked = FALSE])
    ELSE ProcessContents(ResourceCall(resource, args,
                                      HandlerCall(resource.Handler, args)))

\* Server.readResource
readResource(resource, params) ==
    CallResource(resource, ResourceArgs(resource.Handler, params))

ReadMatched(m) ==
    IF m.err # ""
    THEN Error("failed to match resource: " \o m.err)
    ELSE readResource(m.resource, m.params)

\* Session.handleReadResource.  The uri member decodes into a *url.URL: a
\* JSON string is refused by encoding/json (url.URL has no text decoding), an
\* absent member leaves the pointer nil, which URI.String() dereferences.
handleReadResource(rs, order, msg) ==
    IF ~msg.read.ok \/ msg.read.uri.k = "string"
    THEN Error("invalid resource read params")
    ELSE IF msg.read.uri.k = "absent"
    THEN Panic(NoCall)
    ELSE ReadMatched(matchResource(rs, order, UrlString(msg.read.uri)))

\* Server.renderPrompt up to the call: the value of key "argN", converted to
\* the type of the Nth parameter, or the zero value when the key is absent.
PromptArgs(h, arguments) ==
    [i \in 1 .. Len(HandlerIn(h)) |->
        IF ArgName(i - 1) \in DOMAIN arguments
        THEN convertValue(arguments[ArgName(i - 1)], HandlerIn(h)[i])
        ELSE [err |-> "", v |-> Zero(HandlerIn(h)[i])]]

PromptMessage(role, text) == [role |-> role, content |-> TextContent(text)]

PromptCall(h, args, results) ==
    [NoCall EXCEPT !.invoked = TRUE, !.handler = h, !.args = args,
                   !.results = results]

\* "Process results" of renderPrompt and the result of handleGetPrompt.
GetPromptResult(prompt, call) ==
    IF call.results[1].t # "string"
    THEN Outcome("error",
                 "failed to render prompt: invalid prompt handler return type: "
                    \o call.results[1].t,
                 NoResult, call)
    ELSE Response([NoResult EXCEPT
                      !.type = "GetPromptResult",
                      !.description = prompt.Description,
                      !.content = <<PromptMessage("assistant", call.results[1].s)>>],
                  call)

CallPrompt(prompt, args) ==
    GetPromptResult(prompt,
                    PromptCall(prompt.Handler, args, HandlerCall(prompt.Handler, args)))

\* Server.renderPrompt
renderPrompt(prompt, conv) ==
    IF Unconverted(conv) # {}
    THEN Error("failed to render prompt: invalid argument "
                  \o ArgName(Least(Unconverted(conv)) - 1) \o ": "
                  \o conv[Least(Unconverted(conv))].err)
    ELSE CallPrompt(prompt, [i \in DOMAIN conv |-> conv[i].v])

\* Session.handleGetPrompt
handleGetPrompt(ps, msg) ==
    IF ~msg.get.ok
    THEN Error("invalid prompt get params")
    ELSE IF msg.get.name \notin DOMAIN ps
    THEN Error("prompt not found: " \o msg.get.name)
    ELSE renderPrompt(ps[msg.get.name],
                      PromptArgs(ps[msg.get.name].Handler, msg.get.arguments))

(***************************************************************************)
(* The routers.                                                            *)
(***************************************************************************)
handleListResources(rs) ==
    Response([NoResult EXCEPT
                 !.type = "ListResourcesResult",
                 !.list = {[Name |-> rs[n].Pattern, Description |-> rs[n].Description] :
                              n \in DOMAIN rs}],
             NoCall)

handleListPrompts(ps) ==
    Response([NoResult EXCEPT
                 !.type = "ListPromptsResult",
                 !.list = {[Name |-> n, Description |-> ps[n].Description] :
                              n \in DOMAIN ps}],
             NoCall)

\* A method switch whose default case answers like ping.
RouteRequestDefaultsToPing(ts, rs, ps, order, msg) ==
    CASE msg.method = "tools/list" -> handleListTools(ts)
      [] msg.method = "tools/call" -> handleCallTool(ts, msg)
      [] msg.method = "resources/list" -> handleListResources(rs)
      [] msg.method = "resources/read" -> handleReadResource(rs, order, msg)
      [] msg.method = "prompts/list" -> handleListPrompts(ps)
      [] msg.method = "prompts/get" -> handleGetPrompt(ps, msg)
      [] OTHER -> handlePing

\* The method switch of HandleRequest; order is the order in which a range
\* over s.resources visits its keys during this call.
RouteRequest(ts, rs, ps, order, msg) ==
    CASE msg.method = "ping" -> handlePing
      [] msg.method = "tools/list" -> handleListTools(ts)
      [] msg.method = "tools/call" -> handleCallTool(ts, msg)
      [] msg.method = "resources/list" -> handleListResources(rs)
      [] msg.method = "resources/read" -> handleReadResource(rs, order, msg)
      [] msg.method = "prompts/list" -> handleListPrompts(ps)
      [] msg.method = "prompts/get" -> handleGetPrompt(ps, msg)
      [] OTHER -> Error("unknown method: " \o msg.method)

\* HandleRequest without "all other requests require initialization".
HandleRequestUnguarded(s, ts, rs, ps, order, msg, initialized) ==
    IF msg.method = "initialize"
    THEN IF initialized
         THEN [session |-> s, o |-> Error("server already initialized")]
         ELSE handleInitialize(s, msg)
    ELSE [session |-> s, o |-> RouteRequest(ts, rs, ps, order, msg)]

\* HandleRequest without the "already initialized" refusal.
HandleRequestReinitializes(s, ts, rs, ps, order, msg, initialized) ==
    IF msg.method = "initialize"
    THEN handleInitialize(s, msg)
    ELSE IF ~initialized
    THEN [session |-> s, o |-> Error("server not initialized")]
    ELSE [session |-> s, o |-> RouteRequest(ts, rs, ps, order, msg)]

\* Session.HandleRequest after its read of s.initialized, which is passed in
\* as `initialized`.
HandleRequest(s, ts, rs, ps, order, msg, initialized) ==
    IF msg.method = "initialize"
    THEN IF initialized
         THEN [session |-> s, o |-> Error("server already initialized")]
         ELSE WithRequestID(msg, handleInitialize(s, msg))
    ELSE IF ~initialized
    THEN [session |-> s, o |-> Error("server not initialized")]
    ELSE WithRequestID(msg, [session |-> s,
                             o |-> RouteRequest(ts, rs, ps, order, msg)])

\* Session.handleCancelled: decodes the params and does nothing else.
handleCancelled(s, msg) ==
    IF ~msg.cancel.ok
    THEN [session |-> s, o |-> Error("invalid cancellation params")]
    ELSE [session |-> s, o |-> Accepted]

\* A HandleNotification whose notifications/initialized marks the session
\* initialized.
HandleNotificationInitializes(s, msg, initialized) ==
    IF ~initialized /\ msg.method # "notifications/initialized"
    THEN [session |-> s, o |-> Error("server not initialized")]
    ELSE CASE msg.method = "notifications/initialized" ->
                 [session |-> [s EXCEPT !.initialized = TRUE], o |-> Accepted]
           [] msg.method = "notifications/cancelled" -> handleCancelled(s, msg)
           [] OTHER ->
                 [session |-> s,
                  o |-> Error("unknown notification method: " \o msg.method)]

\* Session.HandleNotification after its read of s.initialized.
HandleNotification(s, msg, initialized) ==
    IF ~initialized /\ msg.method # "notifications/initialized"
    THEN [session |-> s, o |-> Error("server not initialized")]
    ELSE CASE msg.method = "notifications/initialized" ->
                 [session |-> s, o |-> Accepted]
           [] msg.method = "notifications/cancelled" -> handleCancelled(s, msg)
           [] OTHER ->
                 [session |-> s,
                  o |-> Error("unknown notification method: " \o msg.method)]

\* The transport's classification: an envelope with an id goes to
\* HandleRequest, one without to HandleNotification.
Handle(s, ts, rs, ps, order, msg, initialized) ==
    IF msg.id # NoId
    THEN HandleRequest(s, ts, rs, ps, order, msg, initialized)
    ELSE HandleNotification(s, msg, initialized)

\* The transport's own decoding of an inbound unit fails before the session
\* is reached: the unit is answered by the transport itself.
Serve(s, ts, rs, ps, order, msg, initialized) ==
    IF msg.kind = "undecodable"
    THEN [session |-> s, o |-> ParseError]
    ELSE Handle(s, ts, rs, ps, order, msg, initialized)

(***************************************************************************)
(* The transports: stdio serves one peer over stdin and stdout, WebSocket  *)
(* and SSE serve the peers in their clients map over an http.Server.       *)
(***************************************************************************)
Kinds == {"stdio", "websocket", "sse"}
PeersOf(kind) == IF kind = "stdio" THEN {1} ELSE Peers

\* A connection: the state of the socket ("open", "stalled": the peer does
\* not read, "failed": broken or left by the peer, "closed": closed by the
\* server), the position of the handler goroutine serving it ("accepted":
\* before it registers the client, "registered": in its loop, "done"), how
\* often the server has closed it (for SSE: its channel), for SSE the
\* notifications buffered in its channel, the remote address it reports,
\* which is its key in the clients map, and whether its handler goroutine is
\* inside a conn.WriteJSON of a reply.
NoConn ==
    [state |-> "none", pos |-> "none", closes |-> 0, chan |-> <<>>, addr |-> 0,
     writing |-> FALSE]
OpenConn == [NoConn EXCEPT !.state = "open", !.pos = "registered"]

\* The call of SendNotification in progress or last returned, and the calls
\* of Stop.
NoSend ==
    [active |-> FALSE, rest |-> <<>>, lastErr |-> "", calls |-> 0,
     marshalled |-> FALSE, returned |-> FALSE, err |-> "",
     delivered |-> {}, skipped |-> {}]
NoStop == [calls |-> 0, phase |-> "idle", returned |-> 0, err |-> ""]

\* NewStdioTransport / NewWebSocketTransport / NewSSETransport
NewTransport(kind) ==
    [kind |-> kind, srv |-> FALSE, listening |-> FALSE, clients |-> {},
     conn |-> [c \in Peers |-> NoConn], send |-> NoSend, stop |-> NoStop]

\* A started transport with every peer connected and being served.
Serving(kind) ==
    [NewTransport(kind) EXCEPT
        !.srv = kind # "stdio",
        !.listening = kind # "stdio",
        !.clients = IF kind = "stdio" THEN {} ELSE Peers,
        !.conn = [c \in Peers |-> IF c \in PeersOf(kind)
                                  THEN [OpenConn EXCEPT !.addr = c]
                                  ELSE NoConn]]

\* SSETransport.SendNotification, the call numbered n: the notification is
\* marshalled, then offered to the channel of every client in a select with
\* a default branch.
Offer(ch, data) == IF Len(ch) < BufferSize THEN Append(ch, data) ELSE ch
HasRoom(t) == {c \in t.clients : Len(t.conn[c].chan) < BufferSize}

\* A SendNotification that reports an error when a client's channel is full.
SSESendNotificationFailsOnFull(t, n, marshalled) ==
    IF ~marshalled
    THEN [t EXCEPT !.send = [NoSend EXCEPT !.calls = n, !.returned = TRUE,
                                !.err = "failed to marshal notification"]]
    ELSE [t EXCEPT
            !.conn = [c \in Peers |->
                        IF c \in t.clients
                        THEN [t.conn[c] EXCEPT !.chan = Offer(@, n)]
                        ELSE t.conn[c]],
            !.send = [NoSend EXCEPT
                        !.calls = n, !.marshalled = TRUE, !.returned = TRUE,
                        !.err = IF t.clients \ HasRoom(t) # {}
                                THEN "client not ready" ELSE "",
                        !.delivered = HasRoom(t),
                        !.skipped = t.clients \ HasRoom(t)]]

SSESendNotification(t, n, marshalled) ==
    IF ~marshalled
    THEN [t EXCEPT !.send = [NoSend EXCEPT !.calls = n, !.returned = TRUE,
                                !.err = "failed to marshal notification"]]
    ELSE [t EXCEPT
            !.conn = [c \in Peers |->
                        IF c \in t.clients
                        THEN [t.conn[c] EXCEPT !.chan = Offer(@, n)]
                        ELSE t.conn[c]],
            !.send = [NoSend EXCEPT
                        !.calls = n, !.marshalled = TRUE, !.returned = TRUE,
                        !.delivered = HasRoom(t),
                        !.skipped = t.clients \ HasRoom(t)]]

\* WebSocketTransport.SendNotification holds the read lock while it calls
\* conn.WriteJSON for one client after the other, in the order its range
\* over the clients map visits them.  The write to an open connection
\* succeeds, the write to a failed or closed one returns an error, which is
\* kept in lastErr, and the write to a stalled one does not return.
WriteJSON(t, c) ==
    IF t.conn[c].state = "open"
    THEN [t EXCEPT !.send.rest = Tail(@), !.send.delivered = @ \cup {c}]
    ELSE [t EXCEPT !.send.rest = Tail(@), !.send.skipped = @ \cup {c},
                   !.send.lastErr = "write: broken pipe"]

\* WebSocketTransport.Stop up to its Unlock: every connection in the clients
\* map is closed and the map is replaced by an empty one.
CloseAll(t) ==
    [t EXCEPT
        !.conn = [c \in Peers |->
                    IF c \in t.clients
                    THEN [t.conn[c] EXCEPT !.state = "closed", !.closes = @ + 1]
                    ELSE t.conn[c]],
        !.clients = {}]

\* The deferred cleanup of a handler goroutine.  handleWebSocket closes the
\* connection and deletes the client; handleSSE deletes the client and
\* closes its channel.
\* A cleanup that closes without deleting the client.
CleanupKeepsEntry(t, c) ==
    [t EXCEPT !.conn[c] = [@ EXCEPT !.pos = "done", !.closes = @ + 1,
                                    !.state = IF t.kind = "websocket"
                                              THEN "closed" ELSE @]]

\* The clients map is keyed by the remote address: the deletion takes out
\* whatever is registered under the address of c.
Cleanup(t, c) ==
    [t EXCEPT !.conn[c] = [@ EXCEPT !.pos = "done", !.closes = @ + 1,
                                    !.state = IF t.kind = "websocket"
                                              THEN "closed" ELSE @],
              !.clients = {d \in @ : t.conn[d].addr # t.conn[c].addr}]

\* The handler goroutines still running.
Handlers(t) == {c \in Peers : t.conn[c].pos \in {"accepted", "registered"}}

\* The envelopes the transport writes once the session has returned o for
\* msg, each with the connection it is written to.  A request's error goes
\* out through writeErrorWithID with the request's id, its response through
\* writeResponse; a notification's error is logged; after a panic nothing is
\* written.
WriteErrorWithID(conn, id, code, message, err) ==
    [to |-> conn, env |-> "error", id |-> EncodeID(id), code |-> code,
     message |-> message, data |-> err, result |-> NoResult]
WriteResponse(conn, resp) ==
    [to |-> conn, env |-> "response", id |-> EncodeID(resp.id), code |-> 0,
     message |-> "", data |-> "", result |-> resp.result]

\* A notification handler of the transport that reports the error back.
TransportHandleNotificationReplies(conn, msg, o) ==
    IF o.kind = "error"
    THEN <<WriteErrorWithID(conn, NoId, 0 - 32603, "Internal error", o.err)>>
    ELSE <<>>

TransportHandleNotification(conn, msg, o) == <<>>

TransportHandleRequest(conn, msg, o) ==
    CASE o.kind = "error" ->
            <<WriteErrorWithID(conn, DecodeID(msg.id), 0 - 32603,
                               "Internal error", o.err)>>
      [] o.kind = "response" -> <<WriteResponse(conn, o)>>
      [] OTHER -> <<>>

\* writeError: the error envelope without an id.
WriteError(conn, code, message, err) ==
    [to |-> conn, env |-> "error", id |-> NoId, code |-> code,
     message |-> message, data |-> err, result |-> NoResult]

\* What each transport does with a unit that does not decode.
TransportParseError(kind, conn, o) ==
    IF kind = "stdio"
    THEN <<WriteError(conn, 0, "Parse error", o.err)>>
    ELSE <<WriteError(conn, 0 - 32700, "Parse error", o.err)>>

Written(x) ==
    CASE x.msg.kind = "undecodable" ->
            TransportParseError(transport.kind, x.peer, x.o)
      [] x.msg.id # NoId -> TransportHandleRequest(x.peer, x.msg, x.o)
      [] OTHER -> TransportHandleNotification(x.peer, x.msg, x.o)

(***************************************************************************)
(* State machine.                                                          *)
(***************************************************************************)
\* sync.RWMutex: r = the goroutines inside RLock .. RUnlock, w = the one
\* inside Lock .. Unlock, q = those blocked in Lock.  A goroutine is the
\* number of the connection it serves; the owning program's is 0.
Unlocked == [r |-> {}, w |-> {}, q |-> {}]
Owner == 0
\* RLock returns while no goroutine is inside or blocked in Lock; Lock
\* returns while no goroutine holds the mutex.
CanRLock(m) == m.w = {} /\ m.q = {}
CanLock(m) == m.w = {} /\ m.r = {}

\* A lookup that leaves its read lock held when the handler is called.
AfterLookupStillLocked(m, g) == m

\* s.server.mu.RUnlock() after the lookup of handleCallTool and
\* handleGetPrompt, and the deferred one of matchResource, which runs when
\* matchResource returns: before the handler is called.
AfterLookup(m, g) == [m EXCEPT !.r = @ \ {g}]

Idle == [busy |-> FALSE, msg |-> NoMsg, initialized |-> FALSE]

\* The server the example programs build before they serve: NewServer, then
\* one AddTool per tool.
BootTools ==
    AddTool(
      AddTool(
        AddTool(EmptyMap, "add", "add", "Add two numbers").map,
        "reverseText", "reverseText", "Reverses the input text").map,
      "divide", "divide", "Divide a by b").map

\* The tools the file-server example registers.
FileServerTools ==
    AddTool(
      AddTool(
        AddTool(EmptyMap, "writeFile", "writeFile", "Write content to a file").map,
        "deleteFile", "deleteFile", "Delete a file").map,
      "createDir", "createDir", "Create a directory").map

\* Resources and prompts registered at start-up, in this order.
BootResourceOrder ==
    <<"file://{path}", "files/{path}", "files/{param0}", "data/{param0}">>
BootResources ==
    AddResource(
      AddResource(
        AddResource(
          AddResource(EmptyMap, BootResourceOrder[1], "readFile", "Access files").map,
          BootResourceOrder[2], "readFile", "Access files").map,
        BootResourceOrder[3], "readFile", "Access files").map,
      BootResourceOrder[4], "getData", "Get data").map
BootPrompts == AddPrompt(EmptyMap, "confirm", "confirm", "Confirmation prompt").map

NoReg == [op |-> "", key |-> "", err |-> ""]

InitCommon ==
    /\ session = NewSession
    /\ resources = EmptyMap
    /\ prompts = EmptyMap
    /\ inflight = [p \in Peers |-> Idle]
    /\ out = NoOut
    /\ regResult = NoReg
    /\ peerInit = {}
    /\ mu = Unlocked
    /\ transport = Serving("websocket")

\* A bootstrapped server and a fresh session, about to serve.
Init == InitCommon /\ tools = BootTools

\* NewServer and NewSession, nothing registered yet.
InitRegistry == InitCommon /\ tools = EmptyMap

\* A server with tools, resources and prompts registered, and a fresh session.
InitResources ==
    /\ session = NewSession
    /\ tools = BootTools
    /\ resources = BootResources
    /\ prompts = BootPrompts
    /\ inflight = [p \in Peers |-> Idle]
    /\ out = NoOut
    /\ regResult = NoReg
    /\ peerInit = {}
    /\ mu = Unlocked
    /\ transport = Serving("websocket")

\* A bootstrapped server and a fresh session behind any of the transports.
InitTransport ==
    /\ session = NewSession
    /\ tools = BootTools
    /\ resources = EmptyMap
    /\ prompts = EmptyMap
    /\ inflight = [p \in Peers |-> Idle]
    /\ out = NoOut
    /\ regResult = NoReg
    /\ peerInit = {}
    /\ mu = Unlocked
    /\ \E kind \in Kinds : transport = Serving(kind)

\* NewStdioTransport over an input of the given lines: unterminated = the
\* last of them does not end in a newline; ending = what the reader reports
\* where the data end.  read counts the lines Start has taken, answered
\* holds those it has written a reply for, returned is what Start returned
\* ("" while it runs).
NewStdioTransport(input, unterminated, ending) ==
    [kind |-> "stdio", input |-> input, unterminated |-> unterminated,
     ending |-> ending, read |-> 0, answered |-> {}, returned |-> ""]

\* A WebSocket or SSE transport just constructed, not yet started.
InitLifecycle ==
    /\ session = NewSession
    /\ tools = BootTools
    /\ resources = EmptyMap
    /\ prompts = EmptyMap
    /\ inflight = [p \in Peers |-> Idle]
    /\ out = NoOut
    /\ regResult = NoReg
    /\ peerInit = {}
    /\ mu = Unlocked
    /\ \E kind \in {"websocket", "sse"} : transport = NewTransport(kind)

\* A connection's goroutine takes the next envelope, one of msgs, off its
\* connection and enters HandleRequest / HandleNotification, whose first step reads
\* s.initialized under the read lock and releases the lock.
Receive(p, msgs) ==
    /\ ~inflight[p].busy
    /\ out = NoOut
    /\ \E msg \in msgs :
          inflight' = [inflight EXCEPT
                          ![p] = [busy |-> TRUE, msg |-> msg,
                                  initialized |-> session.initialized]]
    /\ UNCHANGED <<session, tools, resources, prompts, out, regResult, peerInit, transport, mu>>

\* The orders in which a range over a map with the keys S can visit them:
\* the Go runtime picks one afresh for every range statement.
Orders(S) ==
    {o \in [1 .. Cardinality(S) -> S] : \A i, j \in DOMAIN o : i # j => o[i] # o[j]}

\* The session returns r to the goroutine of connection p.
Returns(p, r) ==
    /\ session' = r.session
    /\ out' = [peer |-> p, msg |-> inflight[p].msg,
               initialized |-> inflight[p].initialized, o |-> r.o]
    /\ peerInit' = IF inflight[p].msg.method = "initialize"
                      /\ inflight[p].msg.kind = "request"
                      /\ r.o.kind = "response"
                   THEN peerInit \cup {p}
                   ELSE peerInit

\* The rest of HandleRequest / HandleNotification, on the value read.  A
\* panic unwinds into the connection's goroutine, where net/http recovers it;
\* no reply is written.
Dispatch(p) ==
    /\ inflight[p].busy
    /\ out = NoOut
    /\ \E order \in Orders(DOMAIN resources) :
          Returns(p, Serve(session, tools, resources, prompts, order,
                           inflight[p].msg, inflight[p].initialized))
    /\ inflight' = [inflight EXCEPT ![p] = Idle]
    /\ UNCHANGED <<tools, resources, prompts, regResult, transport, mu>>

\* The transport's handleRequest / handleNotification after the session
\* returned: the response or the error is written to the connection the
\* envelope came from (a notification's error is only logged), and the
\* goroutine goes back to reading.
WriteReply ==
    /\ out # NoOut
    /\ out' = NoOut
    /\ UNCHANGED <<session, tools, resources, prompts, inflight, regResult, peerInit, transport, mu>>

CloseSession ==
    /\ session' = Close(session)
    /\ UNCHANGED <<tools, resources, prompts, inflight, out, regResult, peerInit, transport, mu>>

\* Registration calls, as the owning program may issue them at any time.
RegisterTool(name, handler, description) ==
    /\ tools' = AddTool(tools, name, handler, description).map
    /\ regResult' = [op |-> "AddTool", key |-> name,
                     err |-> AddTool(tools, name, handler, description).res.err]
    /\ UNCHANGED <<session, resources, prompts, inflight, out, peerInit, transport, mu>>

RegisterAsyncTool(name, handler, description) ==
    /\ tools' = AddAsyncTool(tools, name, handler, description).map
    /\ regResult' = [op |-> "AddAsyncTool", key |-> name,
                     err |-> AddAsyncTool(tools, name, handler, description).res.err]
    /\ UNCHANGED <<session, resources, prompts, inflight, out, peerInit, transport, mu>>

RegisterResource(pattern, handler, description) ==
    /\ resources' = AddResource(resources, pattern, handler, description).map
    /\ regResult' = [op |-> "AddResource", key |-> pattern,
                     err |-> AddResource(resources, pattern, handler, description).res.err]
    /\ UNCHANGED <<session, tools, prompts, inflight, out, peerInit, transport, mu>>

RegisterPrompt(name, handler, description) ==
    /\ prompts' = AddPrompt(prompts, name, handler, description).map
    /\ regResult' = [op |-> "AddPrompt", key |-> name,
                     err |-> AddPrompt(prompts, name, handler, description).res.err]
    /\ UNCHANGED <<session, tools, resources, inflight, out, peerInit, transport, mu>>

\* The life of a connection-oriented transport.
ServerVars ==
    <<session, tools, resources, prompts, inflight, out, regResult, peerInit, mu>>

\* StartHTTP: the http.Server is created and listens.
StartHTTP ==
    /\ ~transport.srv
    /\ transport' = [transport EXCEPT !.srv = TRUE, !.listening = TRUE]
    /\ UNCHANGED ServerVars

\* The server accepts a connection and starts handleWebSocket / handleSSE
\* for it, up to the point where the handler asks for the write lock.
Accept(c) ==
    /\ transport.listening
    /\ transport.conn[c].state = "none"
    /\ transport' = [transport EXCEPT
                        !.conn[c] = [NoConn EXCEPT !.state = "open",
                                                   !.pos = "accepted",
                                                   !.addr = c]]
    /\ UNCHANGED ServerVars

\* The same for a connection that arrives from the remote address of a
\* connection d that is gone, while no live connection has that address.
AcceptReusing(c, d) ==
    /\ transport.listening
    /\ transport.conn[c].state = "none"
    /\ transport.conn[d].state \in {"failed", "closed"}
    /\ \A e \in Peers : transport.conn[e].state \in {"open", "stalled"}
                            => transport.conn[e].addr # transport.conn[d].addr
    /\ transport' = [transport EXCEPT
                        !.conn[c] = [NoConn EXCEPT !.state = "open",
                                                   !.pos = "accepted",
                                                   !.addr = transport.conn[d].addr]]
    /\ UNCHANGED ServerVars

\* t.clients[clientID] = conn / clientChan, under the write lock.
Register(c) ==
    /\ transport.conn[c].pos = "accepted"
    /\ ~transport.send.active
    /\ transport' = [transport EXCEPT
          !.conn[c].pos = "registered",
          !.clients = {d \in @ : transport.conn[d].addr # transport.conn[c].addr}
                         \cup {c}]
    /\ UNCHANGED ServerVars

\* The peer stops reading from its WebSocket connection, or reads again.
PeerStalls(c) ==
    /\ transport.kind = "websocket"
    /\ transport.conn[c].state \in {"open", "stalled"}
    /\ transport' = [transport EXCEPT
                        !.conn[c].state = IF @ = "open" THEN "stalled" ELSE "open"]
    /\ UNCHANGED ServerVars

\* The connection breaks or the peer leaves.
PeerLeaves(c) ==
    /\ transport.conn[c].state \in {"open", "stalled"}
    /\ transport' = [transport EXCEPT !.conn[c].state = "failed"]
    /\ UNCHANGED ServerVars

\* The loop of handleSSE takes a notification off the client's channel and
\* writes it to the event stream.
Deliver(c) ==
    /\ transport.kind = "sse"
    /\ transport.conn[c].pos = "registered"
    /\ transport.conn[c].state = "open"
    /\ transport.conn[c].chan # <<>>
    /\ transport' = [transport EXCEPT !.conn[c].chan = Tail(@)]
    /\ UNCHANGED ServerVars

\* The handler's loop ends, conn.ReadMessage failing on a broken or closed
\* connection or the request's context being done, and its deferred cleanup
\* runs.
HandlerExits(c) ==
    /\ transport.conn[c].pos = "registered"
    /\ transport.conn[c].state \in {"failed", "closed"}
    /\ ~transport.conn[c].writing
    /\ ~transport.send.active
    /\ transport' = Cleanup(transport, c)
    /\ UNCHANGED ServerVars

\* The loop of handleWebSocket has handled a request and enters
\* conn.WriteJSON with the response or the error, ...
ReplyBegins(c) ==
    /\ transport.kind = "websocket"
    /\ transport.conn[c].pos = "registered"
    /\ transport.conn[c].state \in {"open", "stalled"}
    /\ ~transport.conn[c].writing
    /\ transport' = [transport EXCEPT !.conn[c].writing = TRUE]
    /\ UNCHANGED ServerVars

\* ... which returns unless the peer has stopped reading.
ReplyEnds(c) ==
    /\ transport.conn[c].writing
    /\ transport.conn[c].state # "stalled"
    /\ transport' = [transport EXCEPT !.conn[c].writing = FALSE]
    /\ UNCHANGED ServerVars

\* SSETransport.SendNotification.
SendNotificationSSE ==
    /\ transport.kind = "sse"
    /\ transport.send.calls < MaxSends
    /\ \E marshalled \in BOOLEAN :
          transport' = SSESendNotification(transport, transport.send.calls + 1,
                                           marshalled)
    /\ UNCHANGED ServerVars

\* WebSocketTransport.SendNotification: it takes the read lock, ...
SendNotificationBegins ==
    /\ transport.kind = "websocket"
    /\ ~transport.send.active
    /\ transport.send.calls < MaxSends
    /\ \E order \in Orders(transport.clients) :
          transport' = [transport EXCEPT
                           !.send = [NoSend EXCEPT !.active = TRUE,
                                                   !.rest = order,
                                                   !.marshalled = TRUE,
                                                   !.calls = transport.send.calls + 1]]
    /\ UNCHANGED ServerVars

\* ... writes to the next client, once the write returns, ...
SendNotificationWrites ==
    /\ transport.send.active
    /\ transport.send.rest # <<>>
    /\ transport.conn[transport.send.rest[1]].state # "stalled"
    /\ transport' = WriteJSON(transport, transport.send.rest[1])
    /\ UNCHANGED ServerVars

\* ... and returns lastErr.
SendNotificationReturns ==
    /\ transport.send.active
    /\ transport.send.rest = <<>>
    /\ transport' = [transport EXCEPT !.send.active = FALSE,
                                       !.send.returned = TRUE,
                                       !.send.err = transport.send.lastErr]
    /\ UNCHANGED ServerVars

\* WebSocketTransport.Stop: the connections are closed and the map emptied
\* under the write lock, ...
StopClosesClients ==
    /\ transport.kind = "websocket"
    /\ transport.stop.phase = "idle"
    /\ transport.stop.calls < MaxStops
    /\ ~transport.send.active
    /\ transport' = [CloseAll(transport) EXCEPT !.stop.calls = @ + 1,
                                                 !.stop.phase = "unlocked"]
    /\ UNCHANGED ServerVars

\* ... then the http.Server, if there is one, is shut down: its listener is
\* closed; the hijacked connections are not its concern.
StopShutsDown ==
    /\ transport.stop.phase = "unlocked"
    /\ transport' = [transport EXCEPT !.listening = FALSE,
                                       !.stop.phase = "idle",
                                       !.stop.returned = @ + 1,
                                       !.stop.err = ""]
    /\ UNCHANGED ServerVars

\* SSETransport.Stop: without an http.Server it returns nil; with one it
\* calls Shutdown, which closes the listener and waits ...
StopSSE ==
    /\ transport.kind = "sse"
    /\ transport.stop.phase = "idle"
    /\ transport.stop.calls < MaxStops
    /\ transport' = IF transport.srv
                     THEN [transport EXCEPT !.listening = FALSE,
                                            !.stop.calls = @ + 1,
                                            !.stop.phase = "shutdown"]
                     ELSE [transport EXCEPT !.stop.calls = @ + 1,
                                            !.stop.returned = @ + 1,
                                            !.stop.err = ""]
    /\ UNCHANGED ServerVars

\* ... until no handler is running, returning nil, or until ctx is done,
\* returning its error.
ShutdownReturns ==
    /\ transport.stop.phase = "shutdown"
    /\ \E expired \in BOOLEAN :
          /\ ~expired => Handlers(transport) = {}
          /\ transport' = [transport EXCEPT
                              !.stop.phase = "idle",
                              !.stop.returned = @ + 1,
                              !.stop.err = IF Handlers(transport) = {}
                                           THEN ""
                                           ELSE "context deadline exceeded"]
    /\ UNCHANGED ServerVars

\* The handlers of tools/call, resources/read and prompts/get step by step.
\* at = where the goroutine of the connection is: "idle", "lookup" (inside
\* the read lock), "handler" (the registered function is running), "lock"
\* (the function has called AddTool and waits in s.mu.Lock), "write" (inside
\* the write lock), "done" (the response is ready).
LockIdle == [busy |-> FALSE, msg |-> NoMsg, initialized |-> TRUE, at |-> "idle",
             o |-> Outcome("none", "", NoResult, NoCall)]

\* The request is decoded and the read lock taken.
LookupBegins(p, msgs) ==
    /\ inflight[p].at = "idle"
    /\ CanRLock(mu)
    /\ mu' = [mu EXCEPT !.r = @ \cup {p}]
    /\ \E msg \in msgs :
          inflight' = [inflight EXCEPT ![p] = [LockIdle EXCEPT !.busy = TRUE,
                                                               !.msg = msg,
                                                               !.at = "lookup"]]
    /\ UNCHANGED <<session, tools, resources, prompts, out, regResult, peerInit,
                   transport>>

\* The entry is read and the read lock released; with an entry found the
\* handler is called on it, else the error is ready.
LookupEnds(p) ==
    /\ inflight[p].at = "lookup"
    /\ mu' = AfterLookup(mu, p)
    /\ \E order \in Orders(DOMAIN resources) :
          inflight' = [inflight EXCEPT
             ![p].o = Serve(session, tools, resources, prompts, order,
                            inflight[p].msg, TRUE).o,
             ![p].at = IF Serve(session, tools, resources, prompts, order,
                                inflight[p].msg, TRUE).o.call.invoked
                       THEN "handler" ELSE "done"]
    /\ UNCHANGED <<session, tools, resources, prompts, out, regResult, peerInit,
                   transport>>

\* The registered function returns, ...
HandlerReturns(p) ==
    /\ inflight[p].at = "handler"
    /\ inflight' = [inflight EXCEPT ![p].at = "done"]
    /\ UNCHANGED <<session, tools, resources, prompts, out, regResult, peerInit,
                   transport, mu>>

\* ... or registers a tool on the server it is registered on: it calls
\* AddTool, as the owning program (goroutine 0) may at any time.
AddToolCalled(g) ==
    /\ g \notin mu.q \cup mu.w
    /\ g # Owner => inflight[g].at = "handler"
    /\ mu' = [mu EXCEPT !.q = @ \cup {g}]
    /\ inflight' = IF g = Owner THEN inflight
                   ELSE [inflight EXCEPT ![g].at = "lock"]
    /\ UNCHANGED <<session, tools, resources, prompts, out, regResult, peerInit,
                   transport>>

\* s.mu.Lock() returns.
AddToolLocks(g) ==
    /\ g \in mu.q
    /\ CanLock(mu)
    /\ mu' = [mu EXCEPT !.q = @ \ {g}, !.w = {g}]
    /\ inflight' = IF g = Owner THEN inflight
                   ELSE [inflight EXCEPT ![g].at = "write"]
    /\ UNCHANGED <<session, tools, resources, prompts, out, regResult, peerInit,
                   transport>>

\* The body of AddTool and its deferred Unlock; a handler then returns.
AddToolReturns(g, name, handler, description) ==
    /\ g \in mu.w
    /\ mu' = [mu EXCEPT !.w = {}]
    /\ tools' = AddTool(tools, name, handler, description).map
    /\ regResult' = [op |-> "AddTool", key |-> name,
                     err |-> AddTool(tools, name, handler, description).res.err]
    /\ inflight' = IF g = Owner THEN inflight
                   ELSE [inflight EXCEPT ![g].at = "done"]
    /\ UNCHANGED <<session, resources, prompts, out, peerInit, transport>>

\* The session returns the response or the error to the transport.
HandlerReplies(p) ==
    /\ inflight[p].at = "done"
    /\ out = NoOut
    /\ out' = [peer |-> p, msg |-> inflight[p].msg, initialized |-> TRUE,
               o |-> inflight[p].o]
    /\ inflight' = [inflight EXCEPT ![p] = LockIdle]
    /\ UNCHANGED <<session, tools, resources, prompts, regResult, peerInit,
                   transport, mu>>

\* reader.ReadString('\n') on what is left of the input: the next line if
\* a newline ends it, else the reader's error (with the bytes before it).
ReadString(t) ==
    IF t.read + 1 < Len(t.input) \/ (t.read + 1 = Len(t.input) /\ ~t.unterminated)
    THEN [line |-> t.input[t.read + 1], err |-> ""]
    ELSE [line |-> NoMsg, err |-> t.ending]

\* One round of the loop of StdioTransport.Start on a line read: the line is
\* decoded, handled by the session and answered on stdout.  A panic of a
\* handler ends the process.
StartHandles(r) ==
    /\ session' = r.session
    /\ out' = [peer |-> 1, msg |-> ReadString(transport).line,
               initialized |-> session.initialized, o |-> r.o]
    /\ transport' = [transport EXCEPT
          !.read = @ + 1,
          !.answered = IF Written(out') # <<>> THEN @ \cup {transport.read + 1}
                       ELSE @,
          !.returned = IF r.o.kind = "panic" THEN "panic" ELSE ""]

StartServes ==
    /\ transport.returned = ""
    /\ ReadString(transport).err = ""
    /\ StartHandles(Serve(session, tools, resources, prompts, <<>>,
                          ReadString(transport).line, session.initialized))
    /\ UNCHANGED <<tools, resources, prompts, inflight, regResult, peerInit, mu>>

\* The round in which ReadString reports an error: Start returns nil on
\* io.EOF and the wrapped error otherwise.
StartReturns ==
    /\ transport.returned = ""
    /\ ReadString(transport).err # ""
    /\ transport' = [transport EXCEPT
          !.returned = IF ReadString(transport).err = "EOF" THEN "nil"
                       ELSE "failed to read from stdin: "
                               \o ReadString(transport).err]
    /\ UNCHANGED ServerVars

\* The map a registration of kind op works on.
RegistryOf(op) ==
    CASE op \in {"AddTool", "AddAsyncTool"} -> tools
      [] op = "AddResource" -> resources
      [] OTHER -> prompts

\* A registration call on an mcp.Server, whose maps are then the registry.
McpReturns(op, key, handler, r) ==
    /\ tools' = IF op \in {"AddTool", "AddAsyncTool"} THEN r.map ELSE tools
    /\ resources' = IF op = "AddResource" THEN r.map ELSE resources
    /\ prompts' = IF op \in {"AddTool", "AddAsyncTool", "AddResource"}
                  THEN prompts ELSE r.map
    /\ regResult' = [op |-> op, key |-> key, err |-> r.res.err,
                     handler |-> handler]

McpRegister(op, key, handler, description) ==
    /\ McpReturns(op, key, handler,
                  McpAdd(op, RegistryOf(op), key, handler, description,
                         validateHandler(handler)))
    /\ UNCHANGED <<session, inflight, out, peerInit, transport, mu>>

(***************************************************************************)
(* Inputs.                                                                 *)
(***************************************************************************)
ArgKeys == {ArgName(i) : i \in 0 .. MaxArgIndex} \cup {"text"}
ArgMaps == UNION {[S -> JSONValues] : S \in SUBSET ArgKeys}
Arg1(j) == [k \in {"arg0"} |-> j]
Arg2(j0, j1) == [k \in {"arg0", "arg1"} |-> IF k = "arg0" THEN j0 ELSE j1]
Arg1Text(text) == [k \in {"arg0"} |-> text]

\* The session protocol under concurrency: every method and notification,
\* one well-formed tool call.
SessionMsgs ==
    {InitializeRequest(InitParams(c)) : c \in Clients}
      \cup {InitializeRequest(BadInitParams)}
      \cup {Request(m) : m \in {"ping", "tools/list", "resources/list",
                               "prompts/list", "resources/read", "prompts/get",
                               "notifications/initialized", "bogus"}}
      \cup {CallToolRequest(CallParams("reverseText", Arg1(JStr("abc"))))}
      \cup {Notification(m) : m \in {"notifications/initialized",
                                    "notifications/cancelled",
                                    "initialize", "notifications/bogus"}}
      \cup {CancelledNotification(CancelParams(NumId(0, 1)))}

\* The invocation engine: every tool name against every argument map.
EngineMsgs ==
    {InitializeRequest(InitParams("A")), CallToolRequest(BadCallParams)}
      \cup {CallToolRequest(CallParams(n, a)) :
               n \in DOMAIN BootTools \cup {"nosuch"}, a \in ArgMaps}
      \cup {CallToolRequest(CallParamsNilArgs(n)) : n \in DOMAIN BootTools}

\* The registry: registrations of two handlers under two names, and calls.
RegNames == {"reverseText", "divide"}
RegHandlers == {"reverseText", "divide"}
DescriptionOf(h) == "about " \o h
AnyHandlers == RegHandlers \cup InvalidHandlers
\* The keys the registrations of an mcp.Server are made under.
McpKeys(op) ==
    CASE op \in {"AddTool", "AddAsyncTool"} -> RegNames
      [] op = "AddResource" -> {"data://{id}"}
      [] OTHER -> {"greet"}
RegOps == {"AddTool", "AddAsyncTool", "AddResource", "AddPrompt"}
RegistryMsgs ==
    {InitializeRequest(InitParams("A"))}
      \cup {Request(m) : m \in {"tools/list", "resources/list", "prompts/list"}}
      \cup {CallToolRequest(CallParams(n, a)) :
               n \in RegNames,
               a \in {Arg1(JStr("abc")), Arg2(JNum(4), JNum(4))}}

\* Reads, prompt renderings and tool calls against the start-up registry.
\* A URI travels as a JSON string or as an object with the members of url.URL.
ReadUris ==
    {UriString("file://a/b.txt"), UriString("files/a"),
     UriObject("file", "a", "/b.txt"), UriObject("dir", "a", "/b.txt"),
     UriObject("", "", "file://a/b.txt"), UriObject("", "", "files/a"),
     UriObject("", "", "files/b"), UriObject("", "", "files/a/b.txt"),
     UriObject("", "", "data/x"), UriObject("", "", "other"), UriAbsent}
PromptArgMaps == {EmptyMap, Arg1Text("abc"), [k \in {"action"} |-> "abc"]}
RequestIds == {NumId(0, 1), StrId("1")}
ResourceMsgs ==
    {InitializeRequest(InitParams("A")), Notification("notifications/initialized")}
      \cup {WithId(ReadResourceRequest(ReadParams(u)), id) :
               u \in ReadUris, id \in RequestIds}
      \cup {ReadResourceRequest(BadReadParams), GetPromptRequest(BadGetParams)}
      \cup {GetPromptRequest(GetParams(n, a)) :
               n \in {"confirm", "nosuch"}, a \in PromptArgMaps}
      \cup {CallToolRequest(CallParams(n, Arg1(JStr("abc")))) :
               n \in {"reverseText", "nosuch"}}

\* The transports: requests under string, small and large integer ids, one
\* of them a call that panics, and notifications.
WireIds == {NumId(0, 1), StrId("1"), NumId(2 ^ 23, 1)}
TransportMsgs ==
    {InitializeRequest(InitParams("A"))}
      \cup {WithId(Request(m), id) : m \in {"ping", "bogus"}, id \in WireIds}
      \cup {CallToolRequest(CallParams("add", Arg2(JStr("3"), JStr("4"))))}
      \cup {Notification(m) : m \in {"notifications/initialized",
                                    "notifications/cancelled",
                                    "notifications/bogus"}}
      \cup {CancelledNotification(CancelParams(NumId(0, 1)))}
      \cup {BadEnvelope}

(***************************************************************************)
(* Specifications.                                                         *)
(***************************************************************************)
Next ==
    \/ \E p \in Peers : Receive(p, SessionMsgs)
    \/ \E p \in Peers : Dispatch(p)
    \/ WriteReply
    \/ CloseSession

Spec == Init /\ [][Next]_vars

\* The session once its owner has called Close: every envelope is read off
\* a connection after the call.
NextClosed ==
    \/ CloseSession
    \/ \E p \in Peers : session.cancelled /\ Receive(p, SessionMsgs)
    \/ \E p \in Peers : Dispatch(p)
    \/ WriteReply

SpecClosed == Init /\ [][NextClosed]_vars

NextEngine ==
    \/ Receive(1, EngineMsgs)
    \/ Dispatch(1)
    \/ WriteReply

SpecEngine == Init /\ [][NextEngine]_vars

NextRegistry ==
    \/ Receive(1, RegistryMsgs)
    \/ Dispatch(1)
    \/ WriteReply
    \/ \E n \in RegNames, h \in RegHandlers : RegisterTool(n, h, DescriptionOf(h))
    \/ \E n \in RegNames, h \in RegHandlers : RegisterAsyncTool(n, h, DescriptionOf(h))
    \/ \E h \in RegHandlers : RegisterResource("file://{path}", h, DescriptionOf(h))
    \/ \E h \in RegHandlers : RegisterPrompt("confirm", h, DescriptionOf(h))

SpecRegistry == InitRegistry /\ [][NextRegistry]_vars

NextResources ==
    \/ Receive(1, ResourceMsgs)
    \/ Dispatch(1)
    \/ WriteReply

SpecResources == InitResources /\ [][NextResources]_vars

NextTransport ==
    \/ \E p \in PeersOf(transport.kind) : Receive(p, TransportMsgs)
    \/ \E p \in PeersOf(transport.kind) : Dispatch(p)
    \/ WriteReply

SpecTransport == InitTransport /\ [][NextTransport]_vars

\* The lines a peer may write to the standard input of a stdio server.
StdioLines ==
    {InitializeRequest(InitParams("A")), Request("ping"),
     CallToolRequest(CallParams("add", Arg2(JStr("3"), JStr("4")))),
     Notification("notifications/initialized"), BadEnvelope}
Inputs ==
    UNION {[1 .. n -> StdioLines] : n \in 0 .. MaxLines}

\* A bootstrapped server and a fresh session on a stdio transport whose
\* Start is about to be called.
InitStdio ==
    /\ session = NewSession
    /\ tools = BootTools
    /\ resources = EmptyMap
    /\ prompts = EmptyMap
    /\ inflight = [p \in Peers |-> Idle]
    /\ out = NoOut
    /\ regResult = NoReg
    /\ peerInit = {}
    /\ mu = Unlocked
    /\ \E input \in Inputs, unterminated \in BOOLEAN,
          ending \in {"EOF", "read error"} :
          /\ input = <<>> => ~unterminated
          /\ transport = NewStdioTransport(input, unterminated, ending)

\* Calls of the file server's tools on paths that exist and that do not.
FileServerMsgs ==
    {InitializeRequest(InitParams("A"))}
      \cup {CallToolRequest(CallParams(n, Arg1(JStr(path)))) :
               n \in {"deleteFile", "createDir"}, path \in {"a", "b"}}
      \cup {CallToolRequest(CallParams("writeFile", Arg2(JStr(path), JStr("abc")))) :
               path \in {"", "b"}}

NextFileServer ==
    \/ \E p \in Peers : Receive(p, FileServerMsgs)
    \/ \E p \in Peers : Dispatch(p)
    \/ WriteReply

\* The file server built and a fresh session, about to serve.
InitFileServer == InitCommon /\ tools = FileServerTools

SpecFileServer == InitFileServer /\ [][NextFileServer]_vars

\* A server with one tool, one resource and one prompt, and a session that
\* client A has initialized.
InitLocks ==
    /\ session = handleInitialize(NewSession,
                                  InitializeRequest(InitParams("A"))).session
    /\ tools = AddTool(EmptyMap, "reverseText", "reverseText",
                       "Reverses the input text").map
    /\ resources = AddResource(EmptyMap, "data/{param0}", "getData", "Data").map
    /\ prompts = BootPrompts
    /\ inflight = [p \in Peers |-> LockIdle]
    /\ out = NoOut
    /\ regResult = NoReg
    /\ peerInit = {}
    /\ transport = Serving("websocket")
    /\ mu = Unlocked

LockMsgs ==
    {CallToolRequest(CallParams("divide", Arg2(JNum(4), JNum(4))))}
      \cup {ReadResourceRequest(ReadParams(UriObject("", "", "data/x"))),
            GetPromptRequest(GetParams("confirm", Arg1Text("abc")))}

NextLocks ==
    \/ \E p \in Peers : LookupBegins(p, LockMsgs)
    \/ \E p \in Peers : LookupEnds(p)
    \/ \E p \in Peers : HandlerReturns(p)
    \/ \E g \in Peers \cup {Owner} : AddToolCalled(g)
    \/ \E g \in Peers \cup {Owner} : AddToolLocks(g)
    \/ \E g \in Peers \cup {Owner}, n \in RegNames :
          AddToolReturns(g, n, n, DescriptionOf(n))
    \/ \E p \in Peers : HandlerReplies(p)
    \/ WriteReply

SpecLocks == InitLocks /\ [][NextLocks]_vars

NextStdio == StartServes \/ StartReturns

SpecStdio == InitStdio /\ [][NextStdio]_vars

NextMcp ==
    \E op \in RegOps, h \in AnyHandlers :
        \E n \in McpKeys(op) : McpRegister(op, n, h, DescriptionOf(h))

SpecMcp == InitRegistry /\ [][NextMcp]_vars

NextInvalid ==
    \/ \E n \in RegNames, h \in InvalidHandlers \cup {"reverseText"} :
          RegisterTool(n, h, DescriptionOf(h))
    \/ \E h \in InvalidHandlers : RegisterAsyncTool("divide", h, DescriptionOf(h))
    \/ \E h \in InvalidHandlers :
          RegisterResource("file://{path}", h, DescriptionOf(h))
    \/ \E h \in InvalidHandlers : RegisterPrompt("confirm", h, DescriptionOf(h))

SpecInvalid == InitRegistry /\ [][NextInvalid]_vars

\* Connections coming and going under broadcasts and replies.
NextPeers ==
    \/ StartHTTP
    \/ \E c \in Peers : Accept(c)
    \/ \E c, d \in Peers : AcceptReusing(c, d)
    \/ \E c \in Peers : Register(c)
    \/ \E c \in Peers : PeerStalls(c)
    \/ \E c \in Peers : PeerLeaves(c)
    \/ \E c \in Peers : Deliver(c)
    \/ \E c \in Peers : HandlerExits(c)
    \/ \E c \in Peers : ReplyBegins(c)
    \/ \E c \in Peers : ReplyEnds(c)
    \/ SendNotificationSSE
    \/ SendNotificationBegins
    \/ SendNotificationWrites
    \/ SendNotificationReturns

SpecPeers == InitLifecycle /\ [][NextPeers]_vars

NextLifecycle ==
    \/ StartHTTP
    \/ \E c \in Peers : Accept(c)
    \/ \E c \in Peers : Register(c)
    \/ \E c \in Peers : PeerStalls(c)
    \/ \E c \in Peers : PeerLeaves(c)
    \/ \E c \in Peers : Deliver(c)
    \/ \E c \in Peers : HandlerExits(c)
    \/ SendNotificationSSE
    \/ SendNotificationBegins
    \/ SendNotificationWrites
    \/ SendNotificationReturns
    \/ StopClosesClients
    \/ StopShutsDown
    \/ StopSSE
    \/ ShutdownReturns

SpecLifecycle == InitLifecycle /\ [][NextLifecycle]_vars

(***************************************************************************)
(* Properties.                                                             *)
(***************************************************************************)
\* A step in which a handler call finishes: its outcome appears in out.
Finishes == out = NoOut /\ out' # NoOut

IsInitializeRequest(msg) == msg.kind = "request" /\ msg.method = "initialize"
IsInitializedNotification(msg) ==
    msg.kind = "notification" /\ msg.method = "notifications/initialized"

\* The session states of the specification, read off the session's fields.
SessionState(s) ==
    IF s.cancelled THEN "Closed"
    ELSE IF s.initialized THEN "Initialized" ELSE "Uninitialized"
StateRank(st) ==
    CASE st = "Uninitialized" -> 0 [] st = "Initialized" -> 1 [] OTHER -> 2

\* C1: a message handled on a session it found Uninitialized, other than the
\* initialize request and the notifications/initialized notification, is
\* refused with "server not initialized", invokes no handler and leaves the
\* session as it was.
C1_UninitializedRefusesAllButInitialize ==
    [][(/\ Finishes
        /\ ~out'.initialized
        /\ ~IsInitializeRequest(out'.msg)
        /\ ~IsInitializedNotification(out'.msg))
       => /\ out'.o = Error("server not initialized")
          /\ ~out'.o.call.invoked
          /\ session' = session]_vars

C1_Witness ==
    /\ out.o = Error("server not initialized")
    /\ out.msg.method = "tools/call"
    /\ ~session.initialized

\* C2: of the initialize requests handled on one session at most one
\* succeeds, however they interleave.
C2_AtMostOneInitializeSucceeds == Cardinality(peerInit) <= 1

\* C3: an initialize request that finds the session Initialized fails with
\* "server already initialized" and leaves the session's state, capabilities
\* and client info as they were.
C3_SecondInitializeRefused ==
    [][(Finishes /\ out'.initialized /\ IsInitializeRequest(out'.msg))
       => /\ out'.o = Error("server already initialized")
          /\ session' = session]_vars

C3_Witness ==
    /\ out.o = Error("server already initialized")
    /\ out.msg.init.ok
    /\ session.initialized
    /\ session.capabilities # ClientCapabilities(out.msg.init.client)

\* C4: every connection has a session of its own: a request other than
\* initialize from a connection that has not itself initialized is refused
\* with "server not initialized", and a connection's well-formed initialize
\* fails only if that connection had initialized before.
C4_SessionPerConnection ==
    (out # NoOut /\ out.msg.kind = "request") =>
        /\ (out.msg.method # "initialize" /\ out.peer \notin peerInit)
              => out.o = Error("server not initialized")
        /\ (out.msg.method = "initialize" /\ out.msg.init.ok
               /\ out.o.kind # "response")
              => out.peer \in peerInit

\* C5: the session state never moves backward along Uninitialized ->
\* Initialized -> Closed, and an initialized session is never seen
\* uninitialized again.
C5_StateOnlyMovesForward ==
    [][/\ StateRank(SessionState(session')) >= StateRank(SessionState(session))
       /\ session.initialized => session'.initialized
       /\ session.cancelled => session'.cancelled]_vars

C5_Witness == session.initialized /\ session.cancelled /\ out.o.kind = "response"

\* The map a registration with operation op works on.
DuplicateName(op, key) ==
    CASE op \in {"AddTool", "AddAsyncTool"} -> "tool " \o key \o " already exists"
      [] op = "AddResource" -> "resource " \o key \o " already exists"
      [] OTHER -> "prompt " \o key \o " already exists"

\* C6: a registration under a tool name (AddTool and AddAsyncTool alike),
\* resource pattern or prompt name that is already registered returns the
\* "already exists" error and leaves every entry of the registry as it was.
C6_DuplicateRegistrationRefused ==
    [][(/\ <<regResult, tools, resources, prompts>>'
              # <<regResult, tools, resources, prompts>>
        /\ regResult'.key \in DOMAIN RegistryOf(regResult'.op))
       => /\ regResult'.err = DuplicateName(regResult'.op, regResult'.key)
          /\ tools' = tools
          /\ resources' = resources
          /\ prompts' = prompts]_vars

\* A tool registered by AddTool, refused again through AddAsyncTool with
\* another handler, and then called: the first handler runs.
C6_Witness ==
    /\ regResult = [op |-> "AddAsyncTool", key |-> "divide",
                    err |-> "tool divide already exists"]
    /\ tools["divide"] = Tool("reverseText", DescriptionOf("reverseText"), FALSE)
    /\ out.msg.call.name = "divide"
    /\ out.o.call.invoked
    /\ out.o.call.handler = "reverseText"

\* The outcome in out is that of a tools/call which reached a registered tool.
CallReachedTool ==
    /\ out # NoOut
    /\ out.initialized
    /\ out.msg.kind = "request"
    /\ out.msg.method = "tools/call"
    /\ out.msg.call.ok
    /\ out.msg.call.name \in DOMAIN tools

CalledHandler == tools[out.msg.call.name].Handler

\* The indices of the handler's parameters whose key argN the call lacks.
AbsentKeys ==
    {i \in 0 .. Len(HandlerIn(CalledHandler)) - 1 :
        out.msg.call.nilArgs \/ ArgName(i) \notin DOMAIN out.msg.call.arguments}

\* C7: tools/call passes, as the handler's Nth argument, the wire argument
\* of key "argN"; when a key is absent the call fails with the missing
\* argument error for the first absent key (with "arguments map is nil" when
\* the request has no arguments at all) and the handler is not invoked.
C7_PositionalBinding ==
    CallReachedTool =>
        IF AbsentKeys # {}
        THEN /\ out.o.kind = "error"
             /\ out.o.err = IF out.msg.call.nilArgs
                            THEN "arguments map is nil"
                            ELSE "missing argument: " \o ArgName(Least(AbsentKeys))
             /\ ~out.o.call.invoked
        ELSE out.o.call.args =
                 [i \in 1 .. Len(HandlerIn(CalledHandler)) |->
                     DecodeJSON(out.msg.call.arguments[ArgName(i - 1)])]

\* The request of the example in cmd/mcp/main.go, whose argument is keyed
\* "text", and a two-parameter call that lacks arg1.
C7_Witness ==
    /\ CallReachedTool
    /\ \/ /\ out.msg.call.name = "reverseText"
          /\ DOMAIN out.msg.call.arguments = {"text"}
          /\ out.o = Error("missing argument: arg0")
       \/ /\ out.msg.call.name = "divide"
          /\ DOMAIN out.msg.call.arguments = {"arg0"}
          /\ out.o = Error("missing argument: arg1")

\* C8: tools/call of add with {"arg0":"3","arg1":"4"} answers with a result
\* whose content is 7.
C8_AddThreeFour ==
    (/\ CallReachedTool
     /\ out.msg.call = CallParams("add", Arg2(JStr("3"), JStr("4"))))
    => /\ out.o.kind = "response"
       /\ ~out.o.result.isError
       /\ Len(out.o.result.content) = 1
       /\ out.o.result.content[1].text = "7"

\* A wire value that strict decimal parsing to the numeric parameter type t
\* refuses: a string that is no numeral.
Undecodable(j, t) ==
    t \in {"int", "float64"} /\ j.k = "string" /\ j.s \notin {"3", "4"}

\* C9: a tools/call with a wire value that does not decode to its parameter's
\* type fails with an error value, without invoking the handler and without
\* a panic.
C9_DecodeFailureIsAnError ==
    (/\ CallReachedTool
     /\ AbsentKeys = {}
     /\ \E i \in 1 .. Len(HandlerIn(CalledHandler)) :
           Undecodable(out.msg.call.arguments[ArgName(i - 1)],
                       HandlerIn(CalledHandler)[i]))
    => /\ out.o.kind = "error"
       /\ ~out.o.call.invoked

\* C10: when the handler called returns a (value, failure) pair, the call
\* answers with a response, whose isError is true exactly when the failure
\* is non-nil and whose content is then the failure's text.
C10_ToolFailureIsData ==
    (/\ CallReachedTool
     /\ out.o.call.invoked
     /\ Len(out.o.call.results) = 2)
    => /\ out.o.kind = "response"
       /\ out.o.result.isError = (out.o.call.results[2] # GoNil)
       /\ out.o.call.results[2] # GoNil
             => out.o.result.content = <<TextContent(out.o.call.results[2].s)>>

C10_Witness ==
    /\ CallReachedTool
    /\ out.o.kind = "response"
    /\ out.o.call.handler = "divide"
    /\ out.o.result.isError
    /\ out.o.result.content = <<TextContent("division by zero")>>

\* The outcome in out is that of a resources/read request with decodable
\* params, handled on a session it found Initialized.
ReadReached ==
    /\ out # NoOut
    /\ out.initialized
    /\ out.msg.id # NoId
    /\ out.msg.method = "resources/read"
    /\ out.msg.read.ok

\* The URI a read request names, as text.
ReadUri(uri) == IF uri.k = "string" THEN uri.s ELSE UrlString(uri)

\* C11: with file://{path} registered, a read of file://a/b.txt resolves to
\* that resource, the match extracting path = "a/b.txt", and a read of
\* dir://a/b.txt does not resolve to it.
C11_FilePatternExample ==
    (/\ ReadReached
     /\ out.msg.read.uri.k # "absent"
     /\ "file://{path}" \in DOMAIN resources)
    => /\ ReadUri(out.msg.read.uri) = "file://a/b.txt"
          => /\ out.o.call.invoked
             /\ out.o.call.pattern = "file://{path}"
             /\ \A order \in Orders(DOMAIN resources) :
                   matchResource(resources, order, "file://a/b.txt").params
                      = [name \in {"path"} |-> GoString("a/b.txt")]
       /\ ReadUri(out.msg.read.uri) = "dir://a/b.txt"
          => out.o.call.pattern # "file://{path}"

\* What the placeholders of the resolved pattern extract from the URI read,
\* each converted to the type of its parameter.
Extracted(rp) ==
    Converted(rp, FindStringSubmatch(
                      rp.regex, UrlParse(ReadUri(out.msg.read.uri)).Path).caps)

PassedAsExtracted(extracted) ==
    \A i \in 1 .. Len(HandlerIn(out.o.call.handler)) :
        out.o.call.args[i] = IF i <= Len(extracted)
                             THEN extracted[i].v
                             ELSE Zero(HandlerIn(out.o.call.handler)[i])

\* C12: when a read resolves to a resource, the handler's i-th argument is
\* the value extracted for the i-th placeholder, and only the parameters
\* beyond the placeholders get the zero value of their type.
C12_PlaceholdersBindPositionally ==
    (ReadReached /\ out.o.call.pattern # "")
    => PassedAsExtracted(
           Extracted(parseResourcePattern(out.o.call.pattern, out.o.call.handler)))

\* C13: a read whose handler returns a non-nil error is answered with one
\* error envelope that carries the request's id, not with a response.
C13_ResourceFailureIsProtocolError ==
    (/\ ReadReached
     /\ out.o.call.invoked
     /\ Len(out.o.call.results) = 2
     /\ out.o.call.results[2] # GoNil)
    => /\ Len(Written(out)) = 1
       /\ Written(out)[1].env = "error"
       /\ Written(out)[1].id = out.msg.id
       /\ Written(out)[1].to = out.peer

C13_Witness ==
    /\ ReadReached
    /\ out.o.call.invoked
    /\ out.o.call.handler = "readFile"
    /\ out.o.call.args = <<GoString("b")>>
    /\ Written(out)[1].env = "error"
    /\ Written(out)[1].data
          = "failed to read resource: open b: no such file or directory"

\* No registered pattern that parses against its handler matches the path.
NoPatternMatches(rs, path) ==
    \A pattern \in DOMAIN rs :
        ~(/\ parseResourcePattern(pattern, rs[pattern].Handler).ok
          /\ FindStringSubmatch(CompilePattern(pattern), path).ok)

MatchingPositions(path) ==
    {i \in DOMAIN BootResourceOrder :
        FindStringSubmatch(CompilePattern(BootResourceOrder[i]), path).ok}

\* C15: a read of a URI that more than one registered pattern matches
\* resolves to the pattern registered first.
C15_EarliestRegisteredWins ==
    (ReadReached /\ out.o.call.pattern # "" /\ resources = BootResources)
    => out.o.call.pattern =
           BootResourceOrder[Least(MatchingPositions(
               UrlParse(ReadUri(out.msg.read.uri)).Path))]

\* C16: every envelope written for a request carries exactly the id of that
\* request, a number as the same number and a string as the same string,
\* whether the outcome is a response or an error.
C16_ReplyCarriesRequestId ==
    (out # NoOut /\ out.msg.id # NoId)
    => \A i \in 1 .. Len(Written(out)) : Written(out)[i].id = out.msg.id

\* C17: every envelope that carries an id gets exactly one reply, a response
\* or an error, written to the connection it arrived on.
C17_ExactlyOneReply ==
    (out # NoOut /\ out.msg.id # NoId)
    => /\ Len(Written(out)) = 1
       /\ Written(out)[1].env \in {"response", "error"}
       /\ Written(out)[1].to = out.peer

\* C18: an envelope without an id never causes an envelope to be written,
\* whether handling it succeeded or failed.
C18_NotificationsGetNoReply ==
    (out # NoOut /\ out.msg.kind = "notification" /\ out.msg.id = NoId)
    => Written(out) = <<>>

C18_Witness ==
    /\ out # NoOut
    /\ out.msg.kind = "notification"
    /\ out.msg.id = NoId
    /\ out.o \in {Error("server not initialized"),
                  Error("unknown notification method: notifications/bogus"),
                  Error("invalid cancellation params")}
    /\ Written(out) = <<>>

RequestMethods ==
    {"initialize", "ping", "tools/list", "tools/call", "resources/list",
     "resources/read", "prompts/list", "prompts/get"}
NotificationMethods == {"notifications/initialized", "notifications/cancelled"}

\* C19: on an initialized session a request whose method is none of the
\* eight request methods fails with "unknown method", a notification whose
\* method is none of the two notification methods fails with "unknown
\* notification method"; no handler is invoked and the session is unchanged.
C19_UnknownMethodRefused ==
    [][(Finishes /\ out'.initialized)
       => /\ (out'.msg.id # NoId /\ out'.msg.method \notin RequestMethods)
             => /\ out'.o = Error("unknown method: " \o out'.msg.method)
                /\ session' = session
          /\ (out'.msg.id = NoId /\ out'.msg.method \notin NotificationMethods)
             => /\ out'.o = Error("unknown notification method: "
                                     \o out'.msg.method)
                /\ session' = session]_vars

C19_Witness ==
    /\ out # NoOut
    /\ out.initialized
    /\ out.msg.id # NoId
    /\ out.msg.method = "bogus"
    /\ out.o = Error("unknown method: bogus")
    /\ session.initialized

\* A request that peer q has in flight is the one the notification names.
Names(cancel, q) ==
    /\ inflight[q].busy
    /\ inflight[q].msg.id # NoId
    /\ DecodeID(inflight[q].msg.id) = DecodeID(cancel.requestId)

\* C20: a notifications/cancelled that names the id of a request in flight
\* sets a flag for that id which the request's handler can see: handling it
\* changes the session or the in-flight entry of that request.
C20_CancelledSetsFlag ==
    [][(/\ Finishes
        /\ out'.initialized
        /\ out'.msg.id = NoId
        /\ out'.msg.method = "notifications/cancelled"
        /\ out'.msg.cancel.ok)
       => \A q \in Peers \ {out'.peer} :
             Names(out'.msg.cancel, q)
             => (session' # session \/ inflight'[q] # inflight[q])]_vars

\* C21: handling a notification changes neither the session nor the
\* registry; notifications/initialized is accepted whether or not the
\* session is initialized, and a notifications/cancelled naming an id that no
\* request in flight carries is accepted without effect.
C21_NotificationsChangeNothing ==
    [][(Finishes /\ out'.msg.kind = "notification")
       => /\ session' = session
          /\ UNCHANGED <<tools, resources, prompts>>
          /\ out'.msg.method = "notifications/initialized" => out'.o = Accepted
          /\ (/\ out'.msg.method = "notifications/cancelled"
              /\ out'.initialized
              /\ out'.msg.cancel.ok
              /\ \A q \in Peers : ~Names(out'.msg.cancel, q))
             => out'.o = Accepted]_vars

C21_Witness ==
    /\ out # NoOut
    /\ out.msg.kind = "notification"
    /\ out.msg.method = "notifications/initialized"
    /\ ~out.initialized
    /\ out.o = Accepted
    /\ ~session.initialized

\* C22: on each transport a unit that does not decode as an envelope is
\* answered with one error envelope of code -32700 and no id, without a call
\* of the session.
C22_ParseErrorIs32700 ==
    (out # NoOut /\ out.msg.kind = "undecodable")
    => /\ Written(out)
             = <<WriteError(out.peer, 0 - 32700, "Parse error", out.o.err)>>
       /\ out.o.call = NoCall

\* C23: a call of SSETransport.SendNotification whose notification marshals
\* returns nil in one step, having appended the notification to the channel
\* of every client whose channel had room and left every full channel, and
\* everything else, as it was.
C23_BroadcastSkipsFullPeers ==
    [][(/\ transport.kind = "sse"
        /\ transport'.send.calls = transport.send.calls + 1
        /\ transport'.send.marshalled)
       => /\ transport'.send.returned
          /\ transport'.send.err = ""
          /\ transport'.clients = transport.clients
          /\ \A c \in transport.clients :
                transport'.conn[c].chan =
                   IF Len(transport.conn[c].chan) < BufferSize
                   THEN Append(transport.conn[c].chan, transport'.send.calls)
                   ELSE transport.conn[c].chan
          /\ \A c \in Peers \ transport.clients :
                transport'.conn[c] = transport.conn[c]]_vars

C23_Witness ==
    /\ transport.kind = "sse"
    /\ transport.send.returned
    /\ transport.send.marshalled
    /\ transport.send.err = ""
    /\ transport.send.delivered # {}
    /\ transport.send.skipped # {}
    /\ \A c \in transport.send.skipped :
          transport.send.calls \notin {transport.conn[c].chan[i] :
                                          i \in DOMAIN transport.conn[c].chan}

\* C24: WebSocketTransport.SendNotification never waits on a peer that
\* cannot take the notification, and returns nil whatever the peers do.
C24_WebSocketBroadcastBestEffort ==
    transport.kind = "websocket"
    => /\ transport.send.returned => transport.send.err = ""
       /\ ~(/\ transport.send.active
            /\ transport.send.rest # <<>>
            /\ transport.conn[transport.send.rest[1]].state = "stalled")

\* C25: once Stop has returned on a started transport, the clients map is
\* empty and every handler goroutine still running serves a connection whose
\* end has been signalled to it.
C25_StopReleasesPeers ==
    (/\ transport.srv
     /\ ~transport.listening
     /\ transport.stop.phase = "idle"
     /\ transport.stop.returned > 0)
    => /\ transport.clients = {}
       /\ \A c \in Handlers(transport) :
             transport.conn[c].state \in {"failed", "closed"}

\* C26: Stop before Start and a second Stop return nil, and no connection
\* or channel is closed more than once, whatever the handlers' own cleanup
\* does.
C26_StopIdempotent ==
    /\ \A c \in Peers : transport.conn[c].closes <= 1
    /\ (/\ transport.stop.phase = "idle"
        /\ (transport.stop.returned >= 2 \/ ~transport.srv))
       => transport.stop.err = ""

\* The names a list response carries.
ListedNames(o) == {e.Name : e \in o.result.list}

\* C27: AddTool under a name not yet registered returns nil and adds its
\* entry beside all the entries there were, whatever other registrations
\* and requests it is interleaved with, and a tools/list served afterwards
\* names every registered tool.
C27_DistinctRegistrationsAllLand ==
    [][/\ (/\ <<regResult, tools>>' # <<regResult, tools>>
           /\ regResult'.op = "AddTool"
           /\ regResult'.key \notin DOMAIN tools)
          => /\ regResult'.err = ""
             /\ DOMAIN tools' = DOMAIN tools \cup {regResult'.key}
             /\ \A n \in DOMAIN tools : tools'[n] = tools[n]
       /\ DOMAIN tools \subseteq DOMAIN tools'
       /\ (/\ Finishes
           /\ out'.initialized
           /\ out'.msg.method = "tools/list")
          => ListedNames(out'.o) = DOMAIN tools]_vars

C27_Witness ==
    /\ DOMAIN tools = RegNames
    /\ \A n \in RegNames : ~tools[n].IsAsync
    /\ out # NoOut
    /\ out.msg.method = "tools/list"
    /\ out.o.kind = "response"
    /\ ListedNames(out.o) = RegNames

\* The entries a list request is to return from registry m.
EntriesOf(method, ts, rs, ps) ==
    CASE method = "tools/list" ->
            {[Name |-> n, Description |-> ts[n].Description] : n \in DOMAIN ts}
      [] method = "resources/list" ->
            {[Name |-> n, Description |-> rs[n].Description] : n \in DOMAIN rs}
      [] OTHER ->
            {[Name |-> n, Description |-> ps[n].Description] : n \in DOMAIN ps}

\* C28: tools/list, resources/list and prompts/list answer with the name
\* and description of every registered entry of their kind and of nothing
\* else, one entry each, and change neither the registry nor the session.
C28_ListsSnapshotRegistry ==
    [][(/\ Finishes
        /\ out'.initialized
        /\ out'.msg.id # NoId
        /\ out'.msg.method \in {"tools/list", "resources/list", "prompts/list"})
       => /\ out'.o.kind = "response"
          /\ out'.o.result.list
                = EntriesOf(out'.msg.method, tools, resources, prompts)
          /\ Cardinality(out'.o.result.list)
                = Cardinality(ListedNames(out'.o))
          /\ session' = session
          /\ UNCHANGED <<tools, resources, prompts>>]_vars

C28_Witness ==
    /\ out # NoOut
    /\ out.initialized
    /\ out.msg.method = "tools/list"
    /\ Cardinality(out.o.result.list) = 2
    /\ \E n \in DOMAIN tools : tools[n].IsAsync
    /\ resources # EmptyMap
    /\ prompts # EmptyMap

\* A handler that is nil, is not a function, returns nothing, or returns two
\* values of which the second is not an error.
Unusable(h) ==
    \/ h = "nil"
    \/ HandlerKind(h) # "func"
    \/ HandlerOut(h) = <<>>
    \/ Len(HandlerOut(h)) = 2 /\ HandlerOut(h)[2] # "error"

Holds(m, key, h) == key \in DOMAIN m /\ m[key].Handler = h

\* C29: on mcp.Server a registration with an unusable handler returns an
\* error and leaves the maps as they were; with any other handler it
\* returns nil and the entry holds the handler.
C29_McpRegistrationValidates ==
    [][(<<regResult, tools, resources, prompts>>'
            # <<regResult, tools, resources, prompts>>)
       => IF Unusable(regResult'.handler)
          THEN /\ regResult'.err # ""
               /\ UNCHANGED <<tools, resources, prompts>>
          ELSE /\ regResult'.err = ""
               /\ CASE regResult'.op \in {"AddTool", "AddAsyncTool"} ->
                          Holds(tools', regResult'.key, regResult'.handler)
                    [] regResult'.op = "AddResource" ->
                          Holds(resources', regResult'.key, regResult'.handler)
                    [] OTHER ->
                          Holds(prompts', regResult'.key, regResult'.handler)]_vars

C29_Witness ==
    /\ regResult = [op |-> "AddAsyncTool", key |-> "divide",
                    err |-> "invalid async tool handler: second return value must be error",
                    handler |-> "badSecond"]
    /\ Holds(tools, "divide", "reverseText")
    /\ resources # EmptyMap
    /\ prompts # EmptyMap

\* C30: no entry of the registry of server.Server holds an unusable
\* handler.
C30_RegistryHoldsUsableHandlers ==
    /\ \A n \in DOMAIN tools : ~Unusable(tools[n].Handler)
    /\ \A n \in DOMAIN resources : ~Unusable(resources[n].Handler)
    /\ \A n \in DOMAIN prompts : ~Unusable(prompts[n].Handler)

\* The keys of the map a registration of kind op works on.
KeysOf(op, ts, rs, ps) ==
    CASE op \in {"AddTool", "AddAsyncTool"} -> DOMAIN ts
      [] op = "AddResource" -> DOMAIN rs
      [] OTHER -> DOMAIN ps

\* C31: on mcp.Server a registration with a usable handler under a key
\* that is already registered returns an error and leaves the maps as they
\* were.
C31_McpDuplicateRefused ==
    [][(/\ <<regResult, tools, resources, prompts>>'
               # <<regResult, tools, resources, prompts>>
        /\ ~Unusable(regResult'.handler)
        /\ regResult'.key \in KeysOf(regResult'.op, tools, resources, prompts))
       => /\ regResult'.err # ""
          /\ UNCHANGED <<tools, resources, prompts>>]_vars

\* The string fields of the session.
Recorded(s) == {s.capabilities, s.clientInfo}

\* C32: an initialize request that succeeds leaves the session Initialized
\* with the peer's capabilities and the protocol version of the request
\* recorded in it, and its response carries that protocol version, the
\* server's capabilities and the server's info.
C32_InitializeRecordsAndEchoes ==
    [][(/\ Finishes
        /\ IsInitializeRequest(out'.msg)
        /\ out'.o.kind = "response")
       => /\ session'.initialized
          /\ session'.capabilities = ClientCapabilities(out'.msg.init.client)
          /\ ProtocolVersionOf(out'.msg.init.client) \in Recorded(session')
          /\ out'.o.result.protocolVersion
                = ProtocolVersionOf(out'.msg.init.client)
          /\ out'.o.result.capabilities = ServerCapabilities
          /\ out'.o.result.serverInfo = ServerInfo]_vars

\* C34: a request read off a connection after Session.Close is refused: it
\* reaches no handler, and an initialize among them does not succeed.
C34_ClosedIsTerminal ==
    [][(Finishes /\ out'.msg.kind = "request")
       => /\ out'.o.kind = "error"
          /\ ~out'.o.call.invoked
          /\ session' = session]_vars

\* C40: an initialize request whose params do not decode, handled on a
\* session it found Uninitialized, fails and leaves the session as it was;
\* a well-formed one that finds the session Uninitialized succeeds,
\* whatever failed before it.
C40_FailedInitializeLeavesSession ==
    [][(/\ Finishes
        /\ IsInitializeRequest(out'.msg)
        /\ ~out'.initialized)
       => IF out'.msg.init.ok
          THEN out'.o.kind = "response" /\ session'.initialized
          ELSE /\ out'.o = Error("invalid initialize params")
               /\ session' = session]_vars

C40_Witness ==
    /\ out.o = Error("invalid initialize params")
    /\ session = NewSession
    /\ \E q \in Peers \ {out.peer} :
          /\ inflight[q].busy
          /\ IsInitializeRequest(inflight[q].msg)
          /\ inflight[q].msg.init.ok

\* C33: when StdioTransport.Start has returned, it has returned nil if the
\* input ended and the read error otherwise, and on an input that ended
\* every request of the input has been answered, a last line without a
\* newline included.
C33_StartServesWholeInput ==
    transport.returned \notin {"", "panic"}
    => IF transport.ending = "EOF"
       THEN /\ transport.returned = "nil"
            /\ \A i \in DOMAIN transport.input :
                  transport.input[i].kind = "request"
                  => i \in transport.answered
       ELSE transport.returned = "failed to read from stdin: read error"

\* C35: a tools/call of a tool whose handler returns only an error answers
\* with isError = TRUE and the error's text when the handler returned an
\* error, and with isError = FALSE when it returned nil.
C35_ErrorOnlyToolReportsFailure ==
    (/\ out.o.kind = "response"
     /\ out.o.call.invoked
     /\ HandlerOut(out.o.call.handler) = <<"error">>)
    => IF out.o.call.results[1] = NoError
       THEN ~out.o.result.isError
       ELSE /\ out.o.result.isError
            /\ out.o.result.content = <<TextContent(out.o.call.results[1].s)>>

\* C36: a goroutine holds the read lock of the registry only during its
\* lookup and the write lock only inside a registration: while a registered
\* function runs, its goroutine holds no lock, so no goroutine that holds
\* the lock ever waits for it, and handlers that register and registrations
\* made while handlers run all get the lock.
C36_HandlersRunUnlocked ==
    /\ \A g \in mu.r : inflight[g].at = "lookup"
    /\ \A g \in mu.w : g = Owner \/ inflight[g].at = "write"
    /\ mu.q \cap (mu.r \cup mu.w) = {}

C36_Witness ==
    /\ Owner \in mu.q
    /\ \E p, q \in Peers :
          /\ inflight[p].at = "write"
          /\ p \in mu.w
          /\ inflight[q].at = "handler"
          /\ inflight[q].o.call.handler = "getData"
    /\ "divide" \in DOMAIN tools

\* C37: a broadcast of the SSE transport puts the notification only into
\* channels that are registered and not closed, and a channel that is being
\* closed is out of the clients map when the step that closes it ends.
C37_NoSendOnClosedChannel ==
    [][transport.kind = "sse"
       => /\ \A c \in Peers :
                transport'.conn[c].closes > transport.conn[c].closes
                => c \notin transport'.clients
          /\ transport'.send.calls = transport.send.calls + 1
             => \A c \in Peers :
                   Len(transport'.conn[c].chan) > Len(transport.conn[c].chan)
                   => (c \in transport.clients /\ transport.conn[c].closes = 0)]_vars

C37_Witness ==
    /\ transport.kind = "sse"
    /\ transport.send.returned
    /\ transport.send.delivered # {}
    /\ \E c \in Peers :
          /\ transport.conn[c].closes = 1
          /\ \E d \in transport.send.delivered :
                transport.conn[d].addr = transport.conn[c].addr /\ d # c

\* C38: on the WebSocket transport the handler goroutine of a connection is
\* never inside a write of a reply to it while a broadcast is writing to it.
C38_OneWriterPerConnection ==
    transport.kind = "websocket"
    => \A c \in Peers :
          ~(/\ transport.conn[c].writing
            /\ transport.send.active
            /\ transport.send.rest # <<>>
            /\ transport.send.rest[1] = c)

\* C39: every connected peer whose handler has registered it is in the
\* clients map: no other peer's disconnect takes it out.
C39_PeerSetIsConnectedPeers ==
    \A c \in Peers :
       (/\ transport.conn[c].pos = "registered"
        /\ transport.conn[c].state \in {"open", "stalled"})
       => c \in transport.clients

====
